---- MODULE Spec2Model ----
(***************************************************************************)
(* hld-bench: the structured-output recovery loop (src/src/runner.ts) and  *)
(* the Mermaid diagram repair pipeline (src/src/output/writer.ts).         *)
(*                                                                         *)
(* Text is modelled by TLA+ strings, character by character: the regular   *)
(* expressions of the source are written as syntax trees and run by a      *)
(* backtracking matcher with the priorities of ECMAScript's RegExp.        *)
(***************************************************************************)
EXTENDS Naturals, Integers, Sequences, FiniteSets, TLC

(***************************************************************************)
(* Strings                                                                 *)
(***************************************************************************)

\* const v = x; F(v): x is computed once, whatever use F makes of it.  An
\* operator of this module is handed values bound this way, or expressions
\* that cost nothing to compute again.
Let(x, F(_)) == CHOOSE r \in {F(v) : v \in {x}} : TRUE

\* the elements of a list
Range(xs) == Let(xs, LAMBDA ys : {ys[k] : k \in 1..Len(ys)})

\* s.charAt(i - 1): the i-th character, as a string of length 1
CharAt(s, i) == SubSeq(s, i, i)

\* s.slice(a - 1, b - 1): the characters a .. b-1
Slice(s, a, b) == SubSeq(s, a, b - 1)

\* s.slice(0, n)
Prefix(s, n) == SubSeq(s, 1, IF Len(s) < n THEN Len(s) ELSE n)

\* s.includes(sub)
Includes(s, sub) ==
  \E i \in 1..(Len(s) + 1) :
     /\ i + Len(sub) - 1 <= Len(s)
     /\ SubSeq(s, i, i + Len(sub) - 1) = sub

Lower == {"a","b","c","d","e","f","g","h","i","j","k","l","m",
          "n","o","p","q","r","s","t","u","v","w","x","y","z"}
Upper == {"A","B","C","D","E","F","G","H","I","J","K","L","M",
          "N","O","P","Q","R","S","T","U","V","W","X","Y","Z"}
Digit == {"0","1","2","3","4","5","6","7","8","9"}

\* [a-zA-Z0-9]
AlNum == Lower \cup Upper \cup Digit
\* \w
WordCh == AlNum \cup {"_"}
\* \s  (the white space and line terminators a diagram source can hold)
SpaceCh == {" ", "\t", "\n", "\r", "\f"}
\* what . does not match without the s flag
LineTerm == {"\n", "\r"}

(***************************************************************************)
(* Regular expressions: syntax trees                                       *)
(***************************************************************************)

In(S)      == [t |-> "set", neg |-> FALSE, cs |-> S]
NotIn(S)   == [t |-> "set", neg |-> TRUE,  cs |-> S]
Ch(c)      == In({c})
Dot        == NotIn(LineTerm)
AnyCh      == NotIn({})
Cat(xs)    == [t |-> "cat", xs |-> xs]
Alt(xs)    == [t |-> "alt", xs |-> xs]
Rep(x, lo, hi, g) == [t |-> "rep", x |-> x, min |-> lo, max |-> hi, greedy |-> g]
Star(x)     == Rep(x, 0, -1, TRUE)
Plus(x)     == Rep(x, 1, -1, TRUE)
Opt(x)      == Rep(x, 0, 1, TRUE)
LazyStar(x) == Rep(x, 0, -1, FALSE)
LazyPlus(x) == Rep(x, 1, -1, FALSE)
Cap(n, x)   == [t |-> "cap", n |-> n, x |-> x]
NotAhead(x) == [t |-> "nla", x |-> x]
Behind(S)   == [t |-> "lb", cs |-> S]
\* ^ and $ without the m flag, ^ and $ with it
Bos == [t |-> "bos"]
Eos == [t |-> "eos"]
Bol == [t |-> "bol"]
Eol == [t |-> "eol"]
\* a literal word
Word(w) == [t |-> "lit", w |-> w]

(***************************************************************************)
(* Regular expressions: the backtracking matcher                           *)
(***************************************************************************)

MaxGroups == 4
NoCaps  == [n \in 1..MaxGroups |-> <<0, 0>>]
NoMatch == [ok |-> FALSE, start |-> 0, end |-> 0, caps |-> NoCaps]

Minimum(S) == Let(S, LAMBDA T : CHOOSE a \in T : \A b \in T : a <= b)
Maximum(S) == Let(S, LAMBDA T : CHOOSE a \in T : \A b \in T : a >= b)

\* Of the attempts rs (records [j, r], j the order of preference), the result
\* of the one a backtracking engine reaches first: the successful attempt of
\* least j, or of greatest j when the preference is reversed
FirstOk(rs, reversed) ==
  Let({e \in rs : e.r.ok},
      LAMBDA oks :
        IF oks = {} THEN NoMatch
        ELSE (CHOOSE e \in oks :
                \A f \in oks : IF reversed THEN e.j >= f.j ELSE e.j <= f.j).r)

\* Run the nodes of todo in order from position i: the first way to match
\* them all, in the order a backtracking engine tries them.
RECURSIVE Run(_, _, _, _)

\* Run for the first node n of todo and the nodes rest that follow it
Step(n, rest, s, i, caps) ==
  CASE n.t = "set" ->
         IF i <= Len(s) /\ ((CharAt(s, i) \in n.cs) # n.neg)
           THEN Run(rest, s, i + 1, caps)
           ELSE NoMatch
    [] n.t = "lit" ->
         IF i + Len(n.w) - 1 <= Len(s) /\ SubSeq(s, i, i + Len(n.w) - 1) = n.w
           THEN Run(rest, s, i + Len(n.w), caps)
           ELSE NoMatch
    [] n.t = "cat" -> Run(n.xs \o rest, s, i, caps)
    \* the alternatives, left to right
    [] n.t = "alt" ->
         FirstOk({[j |-> a, r |-> Run(<<n.xs[a]>> \o rest, s, i, caps)] :
                    a \in 1..Len(n.xs)}, FALSE)
    \* a quantified character class: it can take 0 .. k characters, k the
    \* length of the run of characters of the class; a greedy quantifier
    \* prefers the longest that lets the rest match, a lazy one the shortest
    [] n.t = "rep" /\ n.x.t = "set" ->
         LET avail == Len(s) + 1 - i
             lim   == IF n.max = -1 \/ n.max > avail THEN avail ELSE n.max
             bad   == {d \in 0..(lim - 1) :
                         (CharAt(s, i + d) \in n.x.cs) = n.x.neg}
             k     == IF bad = {} THEN lim ELSE Minimum(bad)
         IN FirstOk({[j |-> j, r |-> Run(rest, s, i + j, caps)] :
                       j \in n.min..k}, n.greedy)
    \* any other quantified expression, one iteration at a time
    [] n.t = "rep" /\ n.x.t # "set" ->
         IF n.min > 0
           THEN Run(<<n.x, Rep(n.x, n.min - 1,
                               IF n.max = -1 THEN -1 ELSE n.max - 1,
                               n.greedy)>> \o rest, s, i, caps)
         ELSE IF n.max = 0 THEN Run(rest, s, i, caps)
         ELSE
           FirstOk({[j |-> 0, r |-> Run(rest, s, i, caps)],
                    [j |-> 1,
                     r |-> Run(<<n.x, [t |-> "prog", at |-> i],
                                 Rep(n.x, 0,
                                     IF n.max = -1 THEN -1 ELSE n.max - 1,
                                     n.greedy)>> \o rest, s, i, caps)]},
                   n.greedy)
    \* an iteration that matched the empty string is rejected
    [] n.t = "prog" ->
         IF i = n.at THEN NoMatch ELSE Run(rest, s, i, caps)
    [] n.t = "cap" ->
         Run(<<n.x, [t |-> "ge", n |-> n.n, from |-> i]>> \o rest, s, i, caps)
    [] n.t = "ge" ->
         Run(rest, s, i, [caps EXCEPT ![n.n] = <<n.from, i>>])
    [] n.t = "nla" ->
         IF Run(<<n.x>>, s, i, caps).ok THEN NoMatch
         ELSE Run(rest, s, i, caps)
    [] n.t = "lb" ->
         IF i > 1 /\ CharAt(s, i - 1) \in n.cs
           THEN Run(rest, s, i, caps) ELSE NoMatch
    [] n.t = "bos" -> IF i = 1 THEN Run(rest, s, i, caps) ELSE NoMatch
    [] n.t = "eos" ->
         IF i = Len(s) + 1 THEN Run(rest, s, i, caps) ELSE NoMatch
    [] n.t = "bol" ->
         IF i = 1 \/ CharAt(s, i - 1) \in LineTerm
           THEN Run(rest, s, i, caps) ELSE NoMatch
    [] n.t = "eol" ->
         IF i = Len(s) + 1 \/ CharAt(s, i) \in LineTerm
           THEN Run(rest, s, i, caps) ELSE NoMatch

Run(todo, s, i, caps) ==
  IF Len(todo) = 0 THEN [ok |-> TRUE, start |-> 0, end |-> i, caps |-> caps]
  ELSE CHOOSE r \in {Step(n, rest, u, j, c) :
                       n \in {Head(todo)}, rest \in {Tail(todo)},
                       u \in {s}, j \in {i}, c \in {caps}} : TRUE

\* The match of re that starts at position i, if there is one
MatchAt(re, s, i) == [Run(<<re>>, s, i, NoCaps) EXCEPT !.start = i]

\* RegExp.prototype.exec from lastIndex = from - 1: the leftmost match
Search(re, s, from) ==
  FirstOk({[j |-> k, r |-> MatchAt(re, s, k)] : k \in from..(Len(s) + 1)},
          FALSE)

\* re.test(s)
Test(re, s) == Search(re, s, 1).ok

\* Of the matches at (at[k] the match that starts at position k), the
\* successive ones from position from on: the leftmost, then the leftmost
\* after its end; after an empty match the search resumes one character
\* further
RECURSIVE Successive(_, _)
Successive(at, from) ==
  Let({k \in from..Len(at) : at[k].ok},
      LAMBDA hits :
        IF hits = {} THEN <<>>
        ELSE Let(at[Minimum(hits)],
                 LAMBDA m :
                   <<m>> \o Successive(at, IF m.end = m.start THEN m.end + 1
                                           ELSE m.end)))

\* s.matchAll(re) with the g flag: the successive matches, left to right
MatchAll(re, s, from) ==
  Let([k \in 1..(Len(s) + 1) |-> MatchAt(re, s, k)],
      LAMBDA at : Successive(at, from))

\* the text of capture group n of match m
Group(s, m, n) == Slice(s, m.caps[n][1], m.caps[n][2])

\* s with the matches ms (left to right, disjoint) replaced by By(m)
Splice(s, ms, By(_)) ==
  LET n == Len(ms)
      upTo(k) == IF k > n THEN Len(s) + 1 ELSE ms[k].start
      piece[k \in 0..n] ==
        IF k = 0 THEN Slice(s, 1, upTo(1))
        ELSE piece[k - 1] \o By(ms[k]) \o Slice(s, ms[k].end, upTo(k + 1))
  IN piece[n]

\* s.replace(re, fn) with the g flag
ReplaceAllRe(re, s, By(_)) ==
  Let(MatchAll(re, s, 1), LAMBDA ms : Splice(s, ms, By))

\* s.replace(re, fn) without the g flag: the first match only
ReplaceFirstRe(re, s, By(_)) ==
  Let(Search(re, s, 1), LAMBDA m : IF m.ok THEN Splice(s, <<m>>, By) ELSE s)

\* s.replaceAll(name, to) for a literal, non-empty name
ReplaceAllStr(s, name, to) == ReplaceAllRe(Word(name), s, LAMBDA m : to)

\* s.trim()
Trim(s) ==
  Let({k \in 1..Len(s) : CharAt(s, k) \notin SpaceCh},
      LAMBDA inked :
        IF inked = {} THEN "" ELSE SubSeq(s, Minimum(inked), Maximum(inked)))

\* lines.join(sep)
RECURSIVE Join(_, _)
Join(xs, sep) ==
  IF Len(xs) = 0 THEN ""
  ELSE IF Len(xs) = 1 THEN xs[1]
  ELSE xs[1] \o sep \o Join(Tail(xs), sep)

(***************************************************************************)
(* The diagram repair pipeline: writer.ts, normalizeMermaid and            *)
(* sanitizeMermaid, one operator per statement of the source               *)
(***************************************************************************)

\* /\\n/g and /\\t/g: the two-character sequences backslash n, backslash t
ReEscapedNewline == Cat(<<Ch("\\"), Ch("n")>>)
ReEscapedTab     == Cat(<<Ch("\\"), Ch("t")>>)

normalizeMermaid(src) ==
  Let(ReplaceAllRe(ReEscapedNewline, src, LAMBDA m : "\n"),
      LAMBDA s : ReplaceAllRe(ReEscapedTab, s, LAMBDA m : "  "))

\* The grave accent cannot be written inside a TLA+ string: the model writes
\* it as ~, a character no expression of the source names, so that every
\* character class treats the two alike.  A fence is three of them.
BackTick == "~"
Fence    == Cat(<<Ch(BackTick), Ch(BackTick), Ch(BackTick)>>)

\* /^(fence)mermaid\s*\n/i
ReOpenFence ==
  Cat(<<Bos, Fence, In({"m","M"}), In({"e","E"}), In({"r","R"}),
        In({"m","M"}), In({"a","A"}), In({"i","I"}), In({"d","D"}),
        Star(In(SpaceCh)), Ch("\n")>>)

\* /\n(fence)\s*$/
ReCloseFence == Cat(<<Ch("\n"), Fence, Star(In(SpaceCh)), Eos>>)

\* writer.ts line 27
StripFences(s) ==
  Let(ReplaceFirstRe(ReOpenFence, s, LAMBDA m : ""),
      LAMBDA opened : ReplaceFirstRe(ReCloseFence, opened, LAMBDA m : ""))

\* /[\s%]+$/
ReTrailing == Cat(<<Plus(In(SpaceCh \cup {"%"})), Eos>>)

\* a faulty StripTrailing: /[\s%]$/, the last character only
StripTrailingOne(s) ==
  ReplaceFirstRe(Cat(<<In(SpaceCh \cup {"%"}), Eos>>), s, LAMBDA m : "")

\* writer.ts line 30
StripTrailing(s) == ReplaceFirstRe(ReTrailing, s, LAMBDA m : "")

\* /\["([^"]*?)"\]/  (with the flags gs at line 33, g at line 38)
ReQuotedLabel ==
  Cat(<<Ch("["), Ch("\""), Cap(1, LazyStar(NotIn({"\""}))), Ch("\""), Ch("]")>>)

\* /\n\s*/g
ReLineBreak == Cat(<<Ch("\n"), Star(In(SpaceCh))>>)

\* writer.ts lines 33-35
CollapseLabels(s) ==
  ReplaceAllRe(ReQuotedLabel, s,
    LAMBDA m :
      Let(ReplaceAllRe(ReLineBreak, Group(s, m, 1), LAMBDA k : " "),
          LAMBDA label : "[\"" \o Trim(label) \o "\"]"))

\* a faulty AmpersandLabels: replace without the flag g, the first & only
AmpersandLabelsFirst(s) ==
  ReplaceAllRe(ReQuotedLabel, s,
    LAMBDA m : "[\"" \o ReplaceFirstRe(Ch("&"), Group(s, m, 1),
                                        LAMBDA k : "and") \o "\"]")

\* writer.ts lines 38-40
AmpersandLabels(s) ==
  ReplaceAllRe(ReQuotedLabel, s,
    LAMBDA m : "[\"" \o ReplaceAllStr(Group(s, m, 1), "&", "and") \o "\"]")

\* /(?<=\w)\[(?!\[|\(|")((?:[^\]"]*\([^)]*\)[^\]"]*)+)\]/g
ReUnquotedLabel ==
  Cat(<<Behind(WordCh), Ch("["),
        NotAhead(Alt(<<Ch("["), Ch("("), Ch("\"")>>)),
        Cap(1, Plus(Cat(<<Star(NotIn({"]", "\""})), Ch("("),
                          Star(NotIn({")"})), Ch(")"),
                          Star(NotIn({"]", "\""}))>>))),
        Ch("]")>>)

\* a faulty QuoteLabels: replace without the flag g, the first label only
QuoteLabelsFirst(s) ==
  ReplaceFirstRe(ReUnquotedLabel, s,
    LAMBDA m : "[\"" \o Group(s, m, 1) \o "\"]")

\* writer.ts lines 46-49
QuoteLabels(s) ==
  ReplaceAllRe(ReUnquotedLabel, s,
    LAMBDA m : "[\"" \o Group(s, m, 1) \o "\"]")

\* /^(\s*)subgraph\s+((?:(?!\[).)*\([^)]*\).*?)$/gm
\* (?:(?!\[).) is one character that is neither [ nor a line terminator
ReSubgraph ==
  Cat(<<Bol, Cap(1, Star(In(SpaceCh))), Word("subgraph"), Plus(In(SpaceCh)),
        Cap(2, Cat(<<Star(NotIn({"["} \cup LineTerm)), Ch("("),
                     Star(NotIn({")"})), Ch(")"), LazyStar(Dot)>>)),
        Eol>>)

\* s.replace(/[^a-zA-Z0-9]/g, to)
ReplaceNonAlNum(s, to) == ReplaceAllRe(NotIn(AlNum), s, LAMBDA m : to)

SubgraphIdLen == 30

\* a faulty SubgraphTitles: the identifier is not cut to SubgraphIdLen
SubgraphTitlesWhole(s) ==
  ReplaceAllRe(ReSubgraph, s,
    LAMBDA m :
      Let(Trim(Group(s, m, 2)),
          LAMBDA trimmed :
            Let(ReplaceNonAlNum(trimmed, ""),
                LAMBDA id :
                  Group(s, m, 1) \o "subgraph " \o id
                    \o "[\"" \o trimmed \o "\"]")))

\* writer.ts lines 55-63
SubgraphTitles(s) ==
  ReplaceAllRe(ReSubgraph, s,
    LAMBDA m :
      Let(Trim(Group(s, m, 2)),
          LAMBDA trimmed :
            Let(ReplaceNonAlNum(trimmed, ""),
                LAMBDA id :
                  Group(s, m, 1) \o "subgraph " \o Prefix(id, SubgraphIdLen)
                    \o "[\"" \o trimmed \o "\"]")))

\* /\\\\?"/g: a backslash, an optional second backslash, a double quote
ReEscapedQuote == Cat(<<Ch("\\"), Opt(Ch("\\")), Ch("\"")>>)

\* writer.ts line 66
EscapedQuotes(s) == ReplaceAllRe(ReEscapedQuote, s, LAMBDA m : "'")

\* /^sequenceDiagram/m
ReSeqGate == Cat(<<Bol, Word("sequenceDiagram")>>)

\* /^\s*participant\s+(\S+)/gm
ReParticipant ==
  Cat(<<Bol, Star(In(SpaceCh)), Word("participant"), Plus(In(SpaceCh)),
        Cap(1, Plus(NotIn(SpaceCh)))>>)

\* writer.ts lines 71-74: the declared participant ids
Declared(s) == {Group(s, m, 1) : m \in Range(MatchAll(ReParticipant, s, 1))}

\* (--?>?>|--?>?>>[+-]?|->>?[+-]?|-[)x]|--[)x])
ReArrow ==
  Cap(3, Alt(<<
    Cat(<<Ch("-"), Opt(Ch("-")), Opt(Ch(">")), Ch(">")>>),
    Cat(<<Ch("-"), Opt(Ch("-")), Opt(Ch(">")), Ch(">"), Ch(">"),
          Opt(In({"+", "-"}))>>),
    Cat(<<Ch("-"), Ch(">"), Opt(Ch(">")), Opt(In({"+", "-"}))>>),
    Cat(<<Ch("-"), In({")", "x"})>>),
    Cat(<<Ch("-"), Ch("-"), In({")", "x"})>>)>>))

\* arrowRe: /^(\s*)(\S+)\s*(...)\s*(.+?)\s*:/gm
arrowRe ==
  Cat(<<Bol, Cap(1, Star(In(SpaceCh))), Cap(2, Plus(NotIn(SpaceCh))),
        Star(In(SpaceCh)), ReArrow, Star(In(SpaceCh)),
        Cap(4, LazyPlus(Dot)), Star(In(SpaceCh)), Ch(":")>>)

\* arrowReSrc: /^(\s*)(.+?)\s*(...)\s*(\S+)\s*:/gm
arrowReSrc ==
  Cat(<<Bol, Cap(1, Star(In(SpaceCh))), Cap(2, LazyPlus(Dot)),
        Star(In(SpaceCh)), ReArrow, Star(In(SpaceCh)),
        Cap(4, Plus(NotIn(SpaceCh))), Star(In(SpaceCh)), Ch(":")>>)

\* name.includes(" ") || /[^a-zA-Z0-9_]/.test(name)
NeedsRepair(name) ==
  \/ Includes(name, " ")
  \/ \E k \in 1..Len(name) : CharAt(name, k) \notin WordCh

\* the keys of the Map undeclared, in insertion order
Names(und) == {und[k].name : k \in 1..Len(und)}

\* undeclared.set(name, safeId): a key already there keeps its place
MapSet(und, name, safeId) ==
  IF name \in Names(und)
    THEN [k \in 1..Len(und) |->
            IF und[k].name = name THEN [name |-> name, safeId |-> safeId]
            ELSE und[k]]
    ELSE Append(und, [name |-> name, safeId |-> safeId])

\* writer.ts lines 85-94: the targets of the arrow lines
RECURSIVE ScanTargets(_, _, _, _)
ScanTargets(s, ms, declared, und) ==
  IF Len(ms) = 0 THEN und
  ELSE Let(Trim(Group(s, Head(ms), 4)),
           LAMBDA target :
             Let(IF NeedsRepair(target) /\ target \notin declared
                   THEN MapSet(und, target, ReplaceNonAlNum(target, "_"))
                   ELSE und,
                 LAMBDA next : Let(Tail(ms),
                   LAMBDA rest : ScanTargets(s, rest, declared, next))))

\* writer.ts lines 98-108: the sources of the arrow lines
RECURSIVE ScanSources(_, _, _, _)
ScanSources(s, ms, declared, und) ==
  IF Len(ms) = 0 THEN und
  ELSE Let(Trim(Group(s, Head(ms), 2)),
           LAMBDA source :
             Let(IF /\ NeedsRepair(source)
                    /\ source \notin declared
                    /\ source \notin Names(und)
                   THEN MapSet(und, source, ReplaceNonAlNum(source, "_"))
                   ELSE und,
                 LAMBDA next : Let(Tail(ms),
                   LAMBDA rest : ScanSources(s, rest, declared, next))))

\* writer.ts lines 82-108: the Map undeclared after both scans
Undeclared(s) ==
  Let(Declared(s),
      LAMBDA declared :
        Let(MatchAll(arrowRe, s, 1),
            LAMBDA toTargets :
              Let(ScanTargets(s, toTargets, declared, <<>>),
                  LAMBDA targets :
                    Let(MatchAll(arrowReSrc, s, 1),
                        LAMBDA fromSources :
                          ScanSources(s, fromSources, declared, targets)))))

\* writer.ts lines 113-117: result.replaceAll(name, safeId), in Map order
RECURSIVE RewriteNames(_, _)
RewriteNames(s, und) ==
  IF Len(und) = 0 THEN s
  ELSE Let(ReplaceAllStr(s, Head(und).name, Head(und).safeId),
           LAMBDA result :
             Let(Tail(und), LAMBDA rest : RewriteNames(result, rest)))

\* writer.ts line 114
Declaration(e) == "    participant " \o e.safeId \o " as \"" \o e.name \o "\""

Declarations(und) == [k \in 1..Len(und) |-> Declaration(und[k])]

\* /^(sequenceDiagram\s*\n)/m
ReSeqHeader ==
  Cat(<<Bol, Cap(1, Cat(<<Word("sequenceDiagram"), Star(In(SpaceCh)),
                          Ch("\n")>>))>>)

\* writer.ts lines 119-122
InsertDeclarations(s, und) ==
  ReplaceFirstRe(ReSeqHeader, s,
    LAMBDA m : Group(s, m, 1) \o Join(Declarations(und), "\n") \o "\n")

\* writer.ts lines 69-124
RepairParticipants(s) ==
  IF ~Test(ReSeqGate, s) THEN s
  ELSE Let(Undeclared(s),
           LAMBDA und :
             IF Len(und) = 0 THEN s
             ELSE Let(RewriteNames(s, und),
                      LAMBDA result : InsertDeclarations(result, und)))

\* writer.ts lines 23-127
sanitizeMermaid(src) ==
  Let(Let(Let(Let(Let(Let(Let(Let(
    normalizeMermaid(src),
    StripFences),
    StripTrailing),
    CollapseLabels),
    AmpersandLabels),
    QuoteLabels),
    SubgraphTitles),
    EscapedQuotes),
    RepairParticipants)

(***************************************************************************)
(* JSON values and the schema HLDOutputSchema (types.ts)                   *)
(***************************************************************************)

JStr(v) == [type |-> "string", v |-> v]
JNum(v) == [type |-> "number", v |-> v]
JArr(v) == [type |-> "array",  v |-> v]
JObj(v) == [type |-> "object", v |-> v]

\* the keys of z.object({...}) of HLDOutputSchema, in the order of the
\* source, each with the type the schema asks for
SchemaKeys ==
  << [key |-> "title",               type |-> "string"],
     [key |-> "overview",            type |-> "string"],
     [key |-> "requirements",        type |-> "object"],
     [key |-> "components",          type |-> "array"],
     [key |-> "dataFlow",            type |-> "string"],
     [key |-> "architectureDiagram", type |-> "string"],
     [key |-> "dataStorage",         type |-> "array"],
     [key |-> "apiDesign",           type |-> "array"],
     [key |-> "scalabilityStrategy", type |-> "string"],
     [key |-> "tradeoffs",           type |-> "array"] >>

\* the keys of requirements: z.object({functional, nonFunctional})
RequirementKeys ==
  << [key |-> "functional",    type |-> "array"],
     [key |-> "nonFunctional", type |-> "array"] >>

NoRequirements == JObj([functional |-> JArr(<<>>), nonFunctional |-> JArr(<<>>)])

\* The documents a completion can hold.  Their arrays are empty: the shape
\* of array elements is not exercised.
DocUber ==
  JObj([title |-> JStr("Uber"), overview |-> JStr("o"),
        requirements |-> NoRequirements, components |-> JArr(<<>>),
        dataFlow |-> JStr("sequenceDiagram\nA->>B: ok"),
        architectureDiagram |-> JStr("flowchart TD\nA[LB (x)]"),
        dataStorage |-> JArr(<<>>), apiDesign |-> JArr(<<>>),
        scalabilityStrategy |-> JStr("s"), tradeoffs |-> JArr(<<>>)])

\* valid, with empty diagrams and a key the schema does not know
DocBare ==
  JObj([title |-> JStr("Chat"), overview |-> JStr("o"),
        requirements |-> NoRequirements, components |-> JArr(<<>>),
        dataFlow |-> JStr(""), architectureDiagram |-> JStr(""),
        dataStorage |-> JArr(<<>>), apiDesign |-> JArr(<<>>),
        scalabilityStrategy |-> JStr("s"), tradeoffs |-> JArr(<<>>),
        notes |-> JStr("n")])

\* dataFlow is missing
DocNoFlow ==
  JObj([title |-> JStr("Uber"), overview |-> JStr("o"),
        requirements |-> NoRequirements, components |-> JArr(<<>>),
        architectureDiagram |-> JStr("flowchart TD\nA[LB (x)]"),
        dataStorage |-> JArr(<<>>), apiDesign |-> JArr(<<>>),
        scalabilityStrategy |-> JStr("s"), tradeoffs |-> JArr(<<>>)])

\* title is a number, requirements.nonFunctional and tradeoffs are missing
DocTyped ==
  JObj([title |-> JNum(42), overview |-> JStr("o"),
        requirements |-> JObj([functional |-> JArr(<<>>)]),
        components |-> JArr(<<>>),
        dataFlow |-> JStr("sequenceDiagram\nA->>B: ok"),
        architectureDiagram |-> JStr("flowchart TD\nA[LB (x)]"),
        dataStorage |-> JArr(<<>>), apiDesign |-> JArr(<<>>),
        scalabilityStrategy |-> JStr("s")])

TextUber ==
  "{\"title\":\"Uber\",\"overview\":\"o\",\"requirements\":{\"functional\":[],\"nonFunctional\":[]},\"components\":[],\"dataFlow\":\"sequenceDiagram\\nA->>B: ok\",\"architectureDiagram\":\"flowchart TD\\nA[LB (x)]\",\"dataStorage\":[],\"apiDesign\":[],\"scalabilityStrategy\":\"s\",\"tradeoffs\":[]}"
TextBare ==
  "{\"title\":\"Chat\",\"overview\":\"o\",\"requirements\":{\"functional\":[],\"nonFunctional\":[]},\"components\":[],\"dataFlow\":\"\",\"architectureDiagram\":\"\",\"dataStorage\":[],\"apiDesign\":[],\"scalabilityStrategy\":\"s\",\"tradeoffs\":[],\"notes\":\"n\"}"
TextNoFlow ==
  "{\"title\":\"Uber\",\"overview\":\"o\",\"requirements\":{\"functional\":[],\"nonFunctional\":[]},\"components\":[],\"architectureDiagram\":\"flowchart TD\\nA[LB (x)]\",\"dataStorage\":[],\"apiDesign\":[],\"scalabilityStrategy\":\"s\",\"tradeoffs\":[]}"
TextTyped ==
  "{\"title\":42,\"overview\":\"o\",\"requirements\":{\"functional\":[]},\"components\":[],\"dataFlow\":\"sequenceDiagram\\nA->>B: ok\",\"architectureDiagram\":\"flowchart TD\\nA[LB (x)]\",\"dataStorage\":[],\"apiDesign\":[],\"scalabilityStrategy\":\"s\"}"
\* a completion that wraps its JSON in a fenced block
TextFenced == "~~~json\n" \o TextUber \o "\n~~~"
\* a completion that is prose
TextProse == "Here is the design."

\* valid, its dataFlow a diagram in a fenced block
DocFencedFlow ==
  JObj([title |-> JStr("Uber"), overview |-> JStr("o"),
        requirements |-> NoRequirements, components |-> JArr(<<>>),
        dataFlow |-> JStr("~~~mermaid\nsequenceDiagram\nA->>B: ok\n~~~"),
        architectureDiagram |-> JStr("flowchart TD\nA[LB (x)]"),
        dataStorage |-> JArr(<<>>), apiDesign |-> JArr(<<>>),
        scalabilityStrategy |-> JStr("s"), tradeoffs |-> JArr(<<>>)])
TextFencedFlow ==
  "{\"title\":\"Uber\",\"overview\":\"o\",\"requirements\":{\"functional\":[],\"nonFunctional\":[]},\"components\":[],\"dataFlow\":\"~~~mermaid\\nsequenceDiagram\\nA->>B: ok\\n~~~\",\"architectureDiagram\":\"flowchart TD\\nA[LB (x)]\",\"dataStorage\":[],\"apiDesign\":[],\"scalabilityStrategy\":\"s\",\"tradeoffs\":[]}"

\* the well-formed JSON texts among the completions, with their values
JSONDocs ==
  { [text |-> TextUber,   value |-> DocUber],
    [text |-> TextBare,   value |-> DocBare],
    [text |-> TextNoFlow, value |-> DocNoFlow],
    [text |-> TextTyped,  value |-> DocTyped],
    [text |-> TextFencedFlow, value |-> DocFencedFlow],
    [text |-> "{}", value |-> JObj(<<>>)],
    [text |-> "{\"a\":1}", value |-> JObj([a |-> JNum(1)])],
    [text |-> "{\n  \"a\": 1\n}", value |-> JObj([a |-> JNum(1)])],
    [text |-> "{\"b\":2}", value |-> JObj([b |-> JNum(2)])] }

\* JSON.parse(text): the value, or a SyntaxError
JSONParse(text) ==
  Let(Trim(text),
      LAMBDA t :
        IF \E d \in JSONDocs : d.text = t
          THEN [ok |-> TRUE,
                value |-> (CHOOSE d \in JSONDocs : d.text = t).value]
          ELSE [ok |-> FALSE, value |-> JStr("")])

\* the issues of an object against a list of keys: one per key that is
\* missing or of another type, in schema order
RECURSIVE KeyIssues(_, _, _)
KeyIssues(obj, keys, prefix) ==
  IF Len(keys) = 0 THEN <<>>
  ELSE
    LET k    == Head(keys)
        have == k.key \in DOMAIN obj
        got  == IF have THEN obj[k.key].type ELSE "undefined"
        here == IF got = k.type
                  THEN IF k.key = "requirements"
                         THEN KeyIssues(obj[k.key].v, RequirementKeys,
                                        <<"requirements">>)
                         ELSE <<>>
                  ELSE << [path    |-> Append(prefix, k.key),
                           message |-> "Invalid input: expected " \o k.type
                                         \o ", received " \o got] >>
    IN here \o KeyIssues(obj, Tail(keys), prefix)

\* a faulty safeParse: every object passes, as it is
safeParseLax(value) == [success |-> TRUE, data |-> value.v, issues |-> <<>>]

\* HLDOutputSchema.safeParse(value); data keeps the keys of the schema only
safeParse(value) ==
  IF value.type # "object"
    THEN [success |-> FALSE, data |-> <<>>,
          issues |-> << [path |-> <<>>,
                         message |-> "Invalid input: expected object, received "
                                       \o value.type] >>]
    ELSE Let(KeyIssues(value.v, SchemaKeys, <<>>),
             LAMBDA issues :
               IF Len(issues) = 0
                 THEN [success |-> TRUE,
                       data |-> [k \in {SchemaKeys[n].key :
                                          n \in 1..Len(SchemaKeys)}
                                   |-> value.v[k]],
                       issues |-> <<>>]
                 ELSE [success |-> FALSE, data |-> <<>>, issues |-> issues])

(***************************************************************************)
(* runner.ts: tryParseOutput                                               *)
(***************************************************************************)

\* /(fence)(?:json)?\s*\n?([\s\S]*?)\n?(fence)/
ReFenced ==
  Cat(<<Fence, Opt(Word("json")), Star(In(SpaceCh)), Opt(Ch("\n")),
        Cap(1, LazyStar(AnyCh)), Opt(Ch("\n")), Fence>>)

\* a faulty ExtractCandidate: fenceMatch[0], the whole match with its fences
ExtractCandidateWhole(text) ==
  Let(Search(ReFenced, text, 1),
      LAMBDA fenceMatch :
        IF fenceMatch.ok THEN Slice(text, fenceMatch.start, fenceMatch.end)
        ELSE text)

\* runner.ts lines 20-22: the candidate payload
ExtractCandidate(raw) ==
  Let(Search(ReFenced, raw, 1),
      LAMBDA fenceMatch :
        IF fenceMatch.ok THEN Group(raw, fenceMatch, 1) ELSE raw)

\* runner.ts lines 30-32: one line per issue
IssueLine(i) == "  - " \o Join(i.path, ".") \o ": " \o i.message

\* runner.ts lines 18-37; ok stands for the presence of data
tryParseOutput(raw) ==
  Let(Let(ExtractCandidate(raw), JSONParse),
      LAMBDA parsed :
        IF ~parsed.ok
          THEN [ok |-> FALSE, data |-> <<>>, issues |-> <<>>,
                error |-> "Response is not valid JSON"]
          ELSE Let(safeParse(parsed.value),
                   LAMBDA res :
                     IF res.success
                       THEN [ok |-> TRUE, data |-> res.data, issues |-> <<>>,
                             error |-> ""]
                       ELSE [ok |-> FALSE, data |-> <<>>,
                             issues |-> res.issues,
                             error |-> "Validation failed:\n"
                               \o Join([k \in 1..Len(res.issues) |->
                                          IssueLine(res.issues[k])], "\n")]))

(***************************************************************************)
(* config.ts: the API key of a model                                       *)
(***************************************************************************)

BUILTIN_PROVIDERS == {"openai", "anthropic", "gemini"}

BUILTIN_ENV_KEYS ==
  [openai |-> "OPENAI_API_KEY", anthropic |-> "ANTHROPIC_API_KEY",
   gemini |-> "GEMINI_API_KEY"]

LowerLetters == "abcdefghijklmnopqrstuvwxyz"
UpperLetters == "ABCDEFGHIJKLMNOPQRSTUVWXYZ"

\* s.toUpperCase()
ToUpper(s) ==
  ReplaceAllRe(In(Lower), s,
    LAMBDA m : CharAt(UpperLetters,
                      CHOOSE k \in 1..26 :
                        CharAt(LowerLetters, k) = CharAt(s, m.start)))

\* config.ts lines 19-26; "" stands for an envVar that is not set
resolveEnvVar(config) ==
  IF config.envVar # "" THEN config.envVar
  ELSE IF config.provider \in BUILTIN_PROVIDERS
    THEN BUILTIN_ENV_KEYS[config.provider]
  ELSE ToUpper(config.provider) \o "_API_KEY"

\* config.ts lines 28-35: the message of the error thrown, "" when none is;
\* environ is the set of the variables that hold a non-empty value
validateEnvForModel(config, environ) ==
  Let(resolveEnvVar(config),
      LAMBDA envVar :
        IF envVar # "" /\ envVar \notin environ
          THEN "Missing environment variable: " \o envVar \o " (required for "
                 \o config.provider \o " model " \o config.id \o ")"
          ELSE "")

(***************************************************************************)
(* prompt.ts                                                               *)
(***************************************************************************)

\* buildUserPrompt
buildUserPrompt(problem) ==
  "# " \o problem.title \o "\n\n" \o problem.description
    \o (IF Len(problem.constraints) > 0
          THEN "\n\n## Constraints\n"
                 \o Join([k \in 1..Len(problem.constraints) |->
                            "- " \o problem.constraints[k] \o "\n"], "")
          ELSE "")
    \o "\n\nProduce a complete high-level system design."

(***************************************************************************)
(* writer.ts: getRunDir and writeRunResult                                 *)
(***************************************************************************)

\* a faulty getRunDir: the model id as it is
getRunDirVerbatim(outputBase, problemKey, modelId) ==
  outputBase \o "/" \o problemKey \o "-" \o modelId

\* writer.ts lines 132-140
getRunDir(outputBase, problemKey, modelId) ==
  LET safeName == ReplaceAllRe(NotIn(AlNum \cup {".", "_", "-"}), modelId,
                               LAMBDA m : "-")
  IN outputBase \o "/" \o problemKey \o "-" \o safeName

\* renderDesignMarkdown(output, meta): the document, by what it is made of
renderDesignMarkdown(output, meta) == [markdown |-> <<output, meta>>]

\* fs.writeFileSync(path, content), for each of the writes ws in order
WriteFiles(files, ws) ==
  [q \in DOMAIN files \cup {w.path : w \in Range(ws)} |->
     IF \E k \in 1..Len(ws) : ws[k].path = q
       THEN ws[Maximum({k \in 1..Len(ws) : ws[k].path = q})].content
       ELSE files[q]]

\* a faulty RunFiles: the diagrams are written as the model gave them
RunFilesUnsanitized(runDir, result) ==
  << [path |-> runDir \o "/raw-response.json",
      content |-> [json |-> result.output]],
     [path |-> runDir \o "/meta.json", content |-> [json |-> result.meta]] >>
  \o (IF result.output["architectureDiagram"].v # ""
        THEN << [path |-> runDir \o "/architecture.mmd",
                 content |-> result.output["architectureDiagram"].v] >>
        ELSE <<>>)
  \o (IF result.output["dataFlow"].v # ""
        THEN << [path |-> runDir \o "/data-flow.mmd",
                 content |-> result.output["dataFlow"].v] >>
        ELSE <<>>)
  \o << [path |-> runDir \o "/design.md",
         content |-> renderDesignMarkdown(result.output, result.meta)] >>

\* writer.ts lines 151-182: the files writeRunResult writes under runDir
RunFiles(runDir, result) ==
  << [path |-> runDir \o "/raw-response.json",
      content |-> [json |-> result.output]],
     [path |-> runDir \o "/meta.json", content |-> [json |-> result.meta]] >>
  \o (IF result.output["architectureDiagram"].v # ""
        THEN << [path |-> runDir \o "/architecture.mmd",
                 content |-> sanitizeMermaid(
                               result.output["architectureDiagram"].v)] >>
        ELSE <<>>)
  \o (IF result.output["dataFlow"].v # ""
        THEN << [path |-> runDir \o "/data-flow.mmd",
                 content |-> sanitizeMermaid(result.output["dataFlow"].v)] >>
        ELSE <<>>)
  \o << [path |-> runDir \o "/design.md",
         content |-> renderDesignMarkdown(result.output, result.meta)] >>

\* writer.ts lines 145-183: the files after the call
writeRunResult(files, outputBase, result) ==
  Let(getRunDir(outputBase, result.meta.problem, result.meta.model),
      LAMBDA runDir :
        Let(RunFiles(runDir, result), LAMBDA ws : WriteFiles(files, ws)))

(***************************************************************************)
(* The benchmark: its problems, its models, the completion service         *)
(***************************************************************************)

MAX_RETRIES == 2
\* types.ts: the version of the format of meta.json
META_VERSION == 1
maxTokens   == 16384

Problems ==
  << [key |-> "design-uber", title |-> "Uber", description |-> "Rides.",
      constraints |-> <<"p99 under 1s">>],
     [key |-> "chat", title |-> "Chat", description |-> "Messaging.",
      constraints |-> <<>>] >>

Models ==
  << [id |-> "gpt-5.2", provider |-> "openai", model |-> "gpt-5.2",
      displayName |-> "GPT-5.2", envVar |-> ""],
     [id |-> "meta/llama", provider |-> "openrouter", model |-> "llama",
      displayName |-> "Llama", envVar |-> ""] >>

\* the environments the benchmark is started in
Environments ==
  { {"OPENAI_API_KEY", "OPENROUTER_API_KEY"}, {"OPENAI_API_KEY"} }
AllKeys == {"OPENAI_API_KEY", "OPENROUTER_API_KEY"}

\* getOutputDir(), relative to the project root
OutputDir == "output"

\* what a schema-constrained completion resolves to
ValidOutputs == {safeParse(DocUber).data, safeParse(DocBare).data}

\* what a plain completion resolves to
RawTexts == {TextUber, TextFenced, TextBare, TextNoFlow, TextTyped, TextProse}

\* the messages of the errors a completion is rejected with: the library's
\* rejection of a structured output, and failures of the transport
SchemaErrors ==
  {"Validation failed for structured output",
   "Invalid input: expected string, received undefined"}
TransportErrors == {"401 Incorrect API key provided", "429 Rate limit reached"}

\* A completion service, by what its requests can come back with
AnyService ==
  [outputs |-> ValidOutputs, firstErrors |-> SchemaErrors \cup TransportErrors,
   texts |-> RawTexts, retryErrors |-> TransportErrors]
TerseService ==
  [outputs |-> ValidOutputs,
   firstErrors |-> {"Validation failed for structured output",
                    "401 Incorrect API key provided"},
   texts |-> {TextUber, TextProse},
   retryErrors |-> {"429 Rate limit reached"}]

\* The calls of runBenchmark that are explored: one run against a service
\* that can answer anything, and the four runs of two problems and two
\* models against a service of fewer answers, with and without the second
\* model's API key
Scenarios ==
  { [problems |-> <<Problems[1]>>, models |-> <<Models[1]>>,
     environ |-> AllKeys, service |-> AnyService] }
  \cup { [problems |-> Problems, models |-> Models,
          environ |-> e, service |-> TerseService] : e \in Environments }

VARIABLES
  problems,    \* runBenchmark's arguments
  models,
  service,     \* the completion service behind chat()
  environ,     \* process.env: the variables that are set
  pi, mi,      \* runBenchmark: the problem and the model of the current run
  completed, failed,
  files,       \* the output directory: path -> content
  pc,          \* where the program is
  now,         \* the clock, in ticks
  startedAt,   \* runSingle: the timer's start
  attempt,     \* runSingle: the loop counter
  messages,    \* runSingle: the transcript
  sent,        \* the completion requests of the current run, in order
  replies,     \* what each of them resolved to or was rejected with
  status,      \* the onStatus messages of the current run
  result,      \* what runSingle returned
  error,       \* the message of the error runSingle raised
  diagram,     \* a diagram source handed to sanitizeMermaid
  clean,       \* sanitizeMermaid(diagram)
  again,       \* sanitizeMermaid(clean)
  sanpc,
  raw,         \* a completion text handed to tryParseOutput
  candidate,   \* the candidate payload taken from it
  outcome,     \* tryParseOutput(raw)
  extpc

runVars == <<problems, models, service, environ, pi, mi, completed, failed, files, pc, now, startedAt,
             attempt, messages, sent, replies, status, result, error>>
sanVars == <<diagram, clean, again, sanpc>>
extVars == <<raw, candidate, outcome, extpc>>
vars    == <<runVars, sanVars, extVars>>

NoResult == [meta |-> <<>>, output |-> <<>>]

problem     == problems[pi]
modelConfig == models[mi]

UserMessage(text)      == [role |-> "user", content |-> text]

\* a faulty AssistantMessage: the response is given back as a user turn
AssistantMessageAsUser(text) == [role |-> "user", content |-> text]

\* runner.ts lines 133-136
AssistantMessage(text) == [role |-> "assistant", content |-> text]

\* runner.ts lines 62-70: the schema-constrained request
FirstRequest ==
  [outputSchema |-> TRUE, schemaHint |-> FALSE, maxTokens |-> maxTokens,
   messages |-> <<UserMessage(buildUserPrompt(problem))>>]

\* runner.ts lines 108-114: a request of the manual loop
RetryRequest(transcript) ==
  [outputSchema |-> FALSE, schemaHint |-> TRUE, maxTokens |-> maxTokens,
   messages |-> transcript]

\* runner.ts lines 72-81 and 119-128
RunResult(output) ==
  [meta |-> [problem |-> problem.key, model |-> modelConfig.id,
             provider |-> modelConfig.provider, timestamp |-> now',
             durationMs |-> now' - startedAt],
   output |-> output]

\* a faulty IsValidationError: every failure of the first request is retried
IsValidationErrorAlways(errMsg) == Len(errMsg) >= 0

\* runner.ts lines 86-89
IsValidationError(errMsg) ==
  Includes(errMsg, "Validation failed") \/ Includes(errMsg, "Invalid input")

\* a faulty Correction: the issues are left out of the message
CorrectionBlind(err) ==
  "Your JSON response failed validation."
    \o "\n\nPlease fix the errors and return the corrected JSON. Return ONLY the raw JSON object, no code fences."

\* runner.ts line 142
Correction(err) ==
  "Your JSON response failed validation:\n" \o err
    \o "\n\nPlease fix the errors and return the corrected JSON. Return ONLY the raw JSON object, no code fences."

\* a faulty MoreAttempts: off by one
MoreAttemptsOffByOne == attempt <= MAX_RETRIES

\* runner.ts line 132
MoreAttempts == attempt < MAX_RETRIES

\* a faulty LastAttempt: off by one, the last failure is not raised again
LastAttemptLate == attempt > MAX_RETRIES

\* runner.ts line 155
LastAttempt == attempt = MAX_RETRIES

\* a faulty Iterate: attempt is not counted and the loop is not left
IterateForever(transcript) ==
  /\ attempt' = attempt
  /\ sent' = Append(sent, RetryRequest(transcript))
  /\ pc' = "retry"
  /\ UNCHANGED error

\* a faulty Iterate: the request is issued twice at once
IterateTwice(transcript) ==
  /\ attempt' = attempt + 1
  /\ IF attempt + 1 <= MAX_RETRIES
       THEN /\ sent' = sent \o <<RetryRequest(transcript), RetryRequest(transcript)>>
            /\ pc' = "retry"
            /\ UNCHANGED error
       ELSE /\ error' = "All retry attempts exhausted"
            /\ pc' = "threw"
            /\ UNCHANGED sent

\* runner.ts line 105, attempt = 1 or attempt++ and the test of the loop, then
\* lines 108-114, the next request, or line 162 when the loop is left
Iterate(transcript) ==
  /\ attempt' = attempt + 1
  /\ IF attempt + 1 <= MAX_RETRIES
       THEN /\ sent' = Append(sent, RetryRequest(transcript))
            /\ pc' = "retry"
            /\ UNCHANGED error
       ELSE /\ error' = "All retry attempts exhausted"
            /\ pc' = "threw"
            /\ UNCHANGED sent

\* a faulty Caught: the failed attempt is not counted
CaughtUncounted(errMsg) ==
  IF LastAttempt
    THEN /\ error' = errMsg
         /\ pc' = "threw"
         /\ UNCHANGED <<attempt, sent, status>>
    ELSE /\ status' = Append(status,
              "attempt " \o ToString(attempt) \o " failed: "
                \o Prefix(errMsg, 80) \o "...")
         /\ sent' = Append(sent, RetryRequest(messages))
         /\ pc' = "retry"
         /\ UNCHANGED <<attempt, error>>

\* runner.ts lines 154-159: the catch clause of the loop body
Caught(errMsg) ==
  IF LastAttempt
    THEN /\ error' = errMsg
         /\ pc' = "threw"
         /\ UNCHANGED <<attempt, sent, status>>
    ELSE /\ status' = Append(status,
              "attempt " \o ToString(attempt) \o " failed: "
                \o Prefix(errMsg, 80) \o "...")
         /\ Iterate(messages)

RunnerIdle ==
  /\ attempt = 0 /\ messages = <<>> /\ sent = <<>> /\ replies = <<>>
  /\ status = <<>> /\ result = NoResult /\ error = "" /\ startedAt = 0

SanIdle == diagram = "" /\ clean = "" /\ again = "" /\ sanpc = "off"

NoOutcome == [ok |-> FALSE, data |-> <<>>, issues |-> <<>>, error |-> ""]

ExtIdle == raw = "" /\ candidate = "" /\ outcome = NoOutcome /\ extpc = "off"

Init ==
  /\ \E sc \in Scenarios :
       /\ problems = sc.problems /\ models = sc.models
       /\ service = sc.service /\ environ = sc.environ
  /\ pi = 1 /\ mi = 1 /\ completed = 0 /\ failed = 0
  /\ files = <<>>
  /\ pc = "bench"
  /\ now = 0
  /\ RunnerIdle
  /\ SanIdle
  /\ ExtIdle

\* runBenchmark lines 186-193 and runSingle lines 48-70: the run of the next
\* pair starts; without its API key it fails before any request
StartRun ==
  /\ pc = "bench"
  /\ \E missing \in {validateEnvForModel(modelConfig, environ)} :
        IF missing # ""
          THEN /\ pc' = "threw"
               /\ error' = missing
               /\ UNCHANGED <<startedAt, sent>>
          ELSE /\ pc' = "first"
               /\ startedAt' = now
               /\ sent' = <<FirstRequest>>
               /\ UNCHANGED error
  /\ UNCHANGED <<problems, models, service, environ, pi, mi, completed, failed, files, now, attempt,
                 messages, replies, status, result, sanVars, extVars>>

\* runSingle lines 72-81: the constrained completion resolves
FirstResolves(output) ==
  /\ pc = "first"
  /\ now' = now + 1
  /\ replies' = Append(replies, [kind |-> "data", data |-> output])
  /\ result' = RunResult(output)
  /\ pc' = "returned"
  /\ UNCHANGED <<problems, models, service, environ, pi, mi, completed, failed, files, startedAt, attempt,
                 messages, sent, status, error, sanVars, extVars>>

\* runSingle lines 82-114: the constrained completion is rejected
FirstRejects(errMsg) ==
  /\ pc = "first"
  /\ now' = now + 1
  /\ replies' = Append(replies, [kind |-> "error", message |-> errMsg])
  /\ IF ~IsValidationError(errMsg)
       THEN /\ pc' = "threw"
            /\ error' = errMsg
            /\ UNCHANGED <<attempt, messages, sent, status>>
       ELSE /\ status' = Append(status,
                 "schema validation failed, retrying with error feedback (1/"
                   \o ToString(MAX_RETRIES) \o ")...")
            /\ messages' = <<UserMessage(buildUserPrompt(problem))>>
            /\ Iterate(messages')
  /\ UNCHANGED <<problems, models, service, environ, pi, mi, completed, failed, files, startedAt, result,
                 sanVars, extVars>>

\* runSingle lines 116-153: a completion of the manual loop resolves;
\* the long dash of the status message is written -
RetryResolves(rawText) ==
  /\ pc = "retry"
  /\ now' = now + 1
  /\ replies' = Append(replies, [kind |-> "text", text |-> rawText])
  /\ \E parsed \in {tryParseOutput(rawText)} :
        IF parsed.ok
          THEN /\ result' = RunResult(parsed.data)
               /\ pc' = "returned"
               /\ UNCHANGED <<attempt, messages, sent, status, error>>
        ELSE IF MoreAttempts
          THEN /\ messages' = messages \o <<AssistantMessage(rawText),
                                            UserMessage(Correction(parsed.error))>>
               /\ status' = Append(status,
                    "retry " \o ToString(attempt + 1) \o "/"
                      \o ToString(MAX_RETRIES)
                      \o " - feeding back validation errors...")
               /\ Iterate(messages')
               /\ UNCHANGED result
        ELSE /\ Caught("Validation failed after " \o ToString(MAX_RETRIES)
                         \o " retries: " \o parsed.error)
             /\ UNCHANGED <<messages, result>>
  /\ UNCHANGED <<problems, models, service, environ, pi, mi, completed, failed, files, startedAt, sanVars, extVars>>

\* runSingle lines 154-160: a completion of the manual loop is rejected
RetryRejects(errMsg) ==
  /\ pc = "retry"
  /\ now' = now + 1
  /\ replies' = Append(replies, [kind |-> "error", message |-> errMsg])
  /\ Caught(errMsg)
  /\ UNCHANGED <<problems, models, service, environ, pi, mi, completed, failed, files, startedAt, messages,
                 result, sanVars, extVars>>

\* runBenchmark lines 183-186: on to the next model, the next problem, the end
NextPair ==
  /\ IF mi < Len(models) THEN mi' = mi + 1 /\ pi' = pi /\ pc' = "bench"
     ELSE IF pi < Len(problems) THEN mi' = 1 /\ pi' = pi + 1 /\ pc' = "bench"
     ELSE mi' = mi /\ pi' = pi /\ pc' = "done"
  /\ attempt' = 0 /\ messages' = <<>> /\ sent' = <<>> /\ replies' = <<>>
  /\ status' = <<>> /\ result' = NoResult /\ error' = "" /\ startedAt' = 0

\* runBenchmark lines 196-201: the run returned, its result is written
WriteResult ==
  /\ pc = "returned"
  /\ files' = writeRunResult(files, OutputDir, result)
  /\ completed' = completed + 1
  /\ NextPair
  /\ UNCHANGED <<problems, models, service, environ, failed, now, sanVars, extVars>>

\* a faulty CatchFailure: the error of a run ends the benchmark
CatchFailureHalts ==
  /\ pc = "threw"
  /\ failed' = failed + 1
  /\ pc' = "done"
  /\ UNCHANGED <<problems, models, service, environ, pi, mi, completed, files, now, startedAt, attempt,
                 messages, sent, replies, status, result, error, sanVars, extVars>>

\* runBenchmark lines 202-206: the run raised an error
CatchFailure ==
  /\ pc = "threw"
  /\ failed' = failed + 1
  /\ NextPair
  /\ UNCHANGED <<problems, models, service, environ, completed, files, now, sanVars, extVars>>

Next ==
  \/ StartRun
  \/ \E output \in service.outputs : FirstResolves(output)
  \/ \E errMsg \in service.firstErrors : FirstRejects(errMsg)
  \/ \E rawText \in service.texts : RetryResolves(rawText)
  \/ \E errMsg \in service.retryErrors : RetryRejects(errMsg)
  \/ WriteResult
  \/ CatchFailure

Spec == Init /\ [][Next]_vars

\* every completion request is eventually answered, and the program runs on
FairSpec == Spec /\ WF_vars(Next)

(***************************************************************************)
(* Properties of runSingle.  replies[1] answers the schema-constrained     *)
(* request, replies[k + 1] answers attempt k of the manual loop.           *)
(***************************************************************************)

InRun == pc \in {"first", "retry"}
Ended == pc \in {"returned", "threw"}

\* the completion texts that hold a value of the schema, and those that do not
ValidTexts   == {TextUber, TextFenced, TextBare}
InvalidTexts == {TextNoFlow, TextTyped, TextProse}

\* what tryParseOutput is to report of each of the latter
IssueText(text) ==
  CASE text = TextNoFlow ->
         "Validation failed:\n  - dataFlow: Invalid input: expected string, received undefined"
    [] text = TextTyped ->
         "Validation failed:\n  - title: Invalid input: expected string, received number\n  - requirements.nonFunctional: Invalid input: expected array, received undefined\n  - tradeoffs: Invalid input: expected array, received undefined"
    [] text = TextProse -> "Response is not valid JSON"

\* output has the ten keys of HLDOutputSchema, each of its type
Conforms(output) ==
  /\ DOMAIN output = {SchemaKeys[n].key : n \in 1..Len(SchemaKeys)}
  /\ \A n \in 1..Len(SchemaKeys) : output[SchemaKeys[n].key].type = SchemaKeys[n].type
  /\ \A n \in 1..Len(RequirementKeys) :
       /\ RequirementKeys[n].key \in DOMAIN output["requirements"].v
       /\ output["requirements"].v[RequirementKeys[n].key].type = RequirementKeys[n].type

RejectedBySchema(k) ==
  replies[k].kind = "error" /\ replies[k].message \in SchemaErrors
TransportFailure(k) ==
  replies[k].kind = "error" /\ replies[k].message \in TransportErrors
InvalidText(k) == replies[k].kind = "text" /\ replies[k].text \in InvalidTexts
ValidText(k)   == replies[k].kind = "text" /\ replies[k].text \in ValidTexts

\* every response so far violates the schema
AllViolating ==
  /\ Len(replies) >= 1
  /\ RejectedBySchema(1)
  /\ \A k \in 2..Len(replies) : InvalidText(k)

\* C1: against a service whose every response violates the schema, the run
\* goes on until MAX_RETRIES requests of the manual loop have followed the
\* constrained one, and then ends by raising "Validation failed after
\* MAX_RETRIES retries: " followed by the issues of the last response.
C1_ExhaustionAfterMaxRetries ==
  AllViolating =>
    IF Len(replies) < 1 + MAX_RETRIES
      THEN pc = "retry" /\ Len(sent) = Len(replies) + 1
      ELSE /\ Len(replies) = 1 + MAX_RETRIES
           /\ Len(sent) = 1 + MAX_RETRIES
           /\ sent[1].outputSchema
           /\ \A k \in 2..Len(sent) : ~sent[k].outputSchema
           /\ pc = "threw"
           /\ result = NoResult
           /\ error = "Validation failed after " \o ToString(MAX_RETRIES)
                        \o " retries: " \o IssueText(replies[Len(replies)].text)

C1_Witness ==
  /\ pc = "threw" /\ AllViolating /\ Len(replies) = 1 + MAX_RETRIES
  /\ replies[2].text = TextProse /\ replies[3].text = TextTyped
  /\ Includes(error, "tradeoffs: Invalid input")

\* C2: when attempt 1 of the manual loop gets an invalid response and
\* attempt 2 a valid one, runSingle returns the data of attempt 2, and the
\* transcript of attempt 2 is the user prompt, the response of attempt 1 as
\* an assistant turn, and a user turn that holds the issues of attempt 1.
C2_RecoveryOnSecondAttempt ==
  (Len(replies) = 3 /\ InvalidText(2) /\ ValidText(3)) =>
     /\ pc = "returned"
     /\ result.output = tryParseOutput(replies[3].text).data
     /\ Conforms(result.output)
     /\ Len(sent) = 3
     /\ Len(sent[3].messages) = 3
     /\ sent[3].messages[1] = UserMessage(buildUserPrompt(problem))
     /\ sent[3].messages[2] = AssistantMessage(replies[2].text)
     /\ sent[3].messages[3].role = "user"
     /\ Includes(sent[3].messages[3].content, IssueText(replies[2].text))

C2_Witness ==
  /\ pc = "returned" /\ Len(replies) = 3
  /\ replies[2].kind = "text" /\ replies[2].text = TextTyped
  /\ replies[3].kind = "text" /\ replies[3].text = TextFenced
  /\ result.output["title"] = JStr("Uber")

\* C3: a run makes at most 1 + MAX_RETRIES completion requests, a run whose
\* requests are all answered ends, and it ends either with a result and no
\* error or with an error and no result.
C3_RunSingleTerminates ==
  /\ [](Len(sent) <= 1 + MAX_RETRIES)
  /\ []((pc = "returned") => (result # NoResult /\ error = ""))
  /\ []((pc = "threw") => (result = NoResult /\ error # ""))
  /\ (InRun ~> Ended)

C3_Witness ==
  /\ pc = "threw" /\ Len(sent) = 1 + MAX_RETRIES /\ Len(replies) = Len(sent)
  /\ TransportFailure(Len(replies))

\* C4: a failure of the constrained request that is not a validation or
\* invalid-input condition ends the run at once with that error and no
\* request of the manual loop; the manual loop is entered only after a
\* validation or invalid-input failure of the constrained request.
C4_ManualLoopOnlyAfterValidationFailure ==
  /\ (Len(replies) >= 1 /\ TransportFailure(1)) =>
       /\ pc = "threw" /\ error = replies[1].message
       /\ Len(sent) = 1 /\ Len(replies) = 1
       /\ attempt = 0
  /\ (Len(sent) >= 2 \/ attempt >= 1) => RejectedBySchema(1)

C4_Witness ==
  /\ pc = "threw" /\ Len(replies) = 1 /\ Len(sent) = 1
  /\ replies[1] = [kind |-> "error", message |-> "429 Rate limit reached"]
  /\ error = "429 Rate limit reached"

\* C5, as the specification states it: a transport failure of any completion
\* request, the constrained one or one of the manual loop, ends the run at
\* once with that error, and no request follows it.
C5_NoRequestAfterTransportFailure ==
  \A k \in 1..Len(replies) :
    TransportFailure(k) =>
      /\ Len(replies) = k /\ Len(sent) = k
      /\ pc = "threw" /\ error = replies[k].message

\* C5, as the code has it: a transport failure of the constrained request,
\* or of attempt MAX_RETRIES of the manual loop, ends the run at once with
\* that error and no request follows it; a transport failure of an earlier
\* attempt k of the manual loop is reported by onStatus and followed by
\* attempt k + 1, which sends the transcript of attempt k again.
C5_TransportFailureRetriedUntilLastAttempt ==
  \A k \in 1..Len(replies) :
    TransportFailure(k) =>
      IF k = 1 \/ k = 1 + MAX_RETRIES
        THEN /\ Len(replies) = k /\ Len(sent) = k
             /\ pc = "threw" /\ error = replies[k].message
        ELSE /\ Len(sent) >= k + 1
             /\ sent[k + 1] = sent[k]
             /\ \E n \in 1..Len(status) :
                  status[n] = "attempt " \o ToString(k - 1) \o " failed: "
                                \o replies[k].message \o "..."

C5_Witness ==
  /\ pc = "threw" /\ Len(replies) = 3 /\ Len(sent) = 3
  /\ TransportFailure(2) /\ TransportFailure(3)
  /\ error = replies[3].message

\* C6: runSingle returns a result only when its last completion produced
\* output of the schema, the constrained request by resolving or a request
\* of the manual loop by a text that decodes and validates, and the result
\* holds that output; a run that ends without any such completion ends by
\* raising an error and returns nothing.
C6_ResultOnlyFromValidOutput ==
  /\ (pc = "returned") =>
       /\ result # NoResult
       /\ Conforms(result.output)
       /\ Len(replies) >= 1
       /\ \/ /\ Len(replies) = 1
             /\ replies[1].kind = "data"
             /\ result.output = replies[1].data
          \/ /\ Len(replies) > 1
             /\ ValidText(Len(replies))
             /\ result.output = tryParseOutput(replies[Len(replies)].text).data
  /\ (Ended /\ \A k \in 1..Len(replies) :
                 replies[k].kind = "error" \/ InvalidText(k)) =>
       (pc = "threw" /\ result = NoResult /\ error # "")

C6_Witness ==
  /\ pc = "returned" /\ Len(replies) = 2
  /\ replies[2].kind = "text" /\ replies[2].text = TextBare
  /\ "notes" \notin DOMAIN result.output
  /\ result.output["title"] = JStr("Chat")

(***************************************************************************)
(* sanitizeMermaid on its own: a diagram source is sanitized, and what     *)
(* comes out is sanitized again                                            *)
(***************************************************************************)

\* the lines of a source below its header
MaxLines == 2

Headers == {"sequenceDiagram", "flowchart TD"}

\* arrow lines of sequence diagrams, by what they are made of
ArrowLines ==
  { [source |-> "User Service", arrow |-> "->>", target |-> "Auth Service",
     message |-> "login"],
    [source |-> "A", arrow |-> "->>", target |-> "Auth Service",
     message |-> "x"],
    [source |-> "A", arrow |-> "->>", target |-> "Auth Service DB",
     message |-> "y"],
    [source |-> "A", arrow |-> "->>+", target |-> "B", message |-> "msg"],
    [source |-> "B", arrow |-> "-->>-", target |-> "A", message |-> "reply"],
    [source |-> "A", arrow |-> "->>", target |-> "B", message |-> "ok"] }

ArrowText(l) == l.source \o l.arrow \o l.target \o ": " \o l.message

FenceText == BackTick \o BackTick \o BackTick

\* nodes of flowcharts, by what they are made of: the label as it is
\* written, whether it is written in quotes, and what follows the node
NodeLines ==
  { [id |-> "A", label |-> "Load Balancer (Nginx)", quoted |-> FALSE,
     rest |-> ""],
    [id |-> "A", label |-> "Load Balancer (Nginx)", quoted |-> FALSE,
     rest |-> " --> B"],
    [id |-> "B", label |-> "Cache & (x)", quoted |-> FALSE, rest |-> ""],
    [id |-> "C", label |-> "f(x) or g(y)", quoted |-> FALSE, rest |-> ""],
    [id |-> "D", label |-> "Cache & DB", quoted |-> TRUE, rest |-> ""],
    [id |-> "E", label |-> "R&D & Ops", quoted |-> TRUE, rest |-> " --> A"],
    [id |-> "F", label |-> "Auth (v2)", quoted |-> TRUE, rest |-> ""] }

NodeText(n) ==
  n.id \o "[" \o (IF n.quoted THEN "\"" \o n.label \o "\"" ELSE n.label)
       \o "]" \o n.rest

\* a declaration, a comment, a fence
OtherLines == {"participant A", "%%", FenceText}

\* a statement with % after it, a comment with text
FlowLines == {"A --> B %%", "%% note"}

\* the lines under a header
BodyLines(h) ==
  IF h = "sequenceDiagram"
    THEN {ArrowText(l) : l \in ArrowLines} \cup OtherLines
    ELSE {NodeText(n) : n \in NodeLines} \cup FlowLines

\* two names that differ in one character that is not alphanumeric, and an
\* identifier that is declared
CollisionArrows ==
  { [source |-> "A", arrow |-> "->>", target |-> "Auth Service",
     message |-> "x"],
    [source |-> "A", arrow |-> "->>", target |-> "Auth-Service",
     message |-> "z"] }

CollisionLines ==
  {ArrowText(l) : l \in CollisionArrows} \cup {"participant Auth_Service"}

\* subgraph lines, by what they are made of: the indentation, the title as
\* it is written, and the identifier that the title is to get, if any
SubgraphLines ==
  { [indent |-> "", title |-> "Data Layer (Primary)",
     id |-> "DataLayerPrimary"],
    [indent |-> "    ",
     title |-> "Edge (CDN) and Gateway (API) for Region One",
     id |-> "EdgeCDNandGatewayAPIforRegionO"],
    [indent |-> "  ", title |-> "Store (S3)  ", id |-> "StoreS3"],
    [indent |-> "", title |-> "DL[\"Data Layer (x)\"]", id |-> ""],
    [indent |-> "", title |-> "Core", id |-> ""] }

SubgraphText(g) == g.indent \o "subgraph " \o g.title

\* Diagrams of one kind of line each: a header and the lines under it
Families ==
  { [header |-> "sequenceDiagram", lines |-> CollisionLines],
    [header |-> "sequenceDiagram %% v1",
     lines |-> {"A->>Auth Service: x", "A->>B: ok"}],
    [header |-> "flowchart TD",
     lines |-> {SubgraphText(g) : g \in SubgraphLines} \cup {"end"}] }

Texts(header, lines) ==
  {Join(<<header>> \o b, "\n") :
     b \in UNION {[1..n -> lines] : n \in 0..MaxLines}}

Sources ==
  UNION {Texts(h, BodyLines(h)) : h \in Headers}
    \cup UNION {Texts(f.header, f.lines) : f \in Families}

SanInit ==
  /\ problems = <<>> /\ models = <<>> /\ environ = {}
  /\ service = [outputs |-> {}, firstErrors |-> {}, texts |-> {},
                retryErrors |-> {}]
  /\ pi = 1 /\ mi = 1 /\ completed = 0 /\ failed = 0
  /\ files = <<>>
  /\ pc = "done"
  /\ now = 0
  /\ RunnerIdle
  /\ diagram \in Sources
  /\ clean = "" /\ again = ""
  /\ sanpc = "start"
  /\ ExtIdle

\* sanitizeMermaid(diagram)
Sanitize ==
  /\ sanpc = "start"
  /\ clean' = sanitizeMermaid(diagram)
  /\ sanpc' = "once"
  /\ UNCHANGED <<runVars, diagram, again, extVars>>

\* sanitizeMermaid(sanitizeMermaid(diagram))
Resanitize ==
  /\ sanpc = "once"
  /\ again' = sanitizeMermaid(clean)
  /\ sanpc' = "twice"
  /\ UNCHANGED <<runVars, diagram, clean, extVars>>

SanNext == Sanitize \/ Resanitize

SanSpec == SanInit /\ [][SanNext]_vars

(***************************************************************************)
(* Properties of sanitizeMermaid                                           *)
(***************************************************************************)

Sanitized == sanpc \in {"once", "twice"}

\* the lines of a text
Lines(s) ==
  LET cuts == {0, Len(s) + 1} \cup {k \in 1..Len(s) : CharAt(s, k) = "\n"}
      nth(k) == CHOOSE c \in cuts : Cardinality({d \in cuts : d < c}) = k
  IN  [k \in 1..(Cardinality(cuts) - 1) |->
         SubSeq(s, nth(k - 1) + 1, nth(k) - 1)]

HasLine(s, line) == \E k \in DOMAIN Lines(s) : Lines(s)[k] = line

\* the first line of a text starts with the header of sequence diagrams
IsSequenceDiagram(s) == Prefix(Lines(s)[1], 15) = "sequenceDiagram"

\* the arrow lines a source holds
ArrowsOf(s) ==
  {l \in ArrowLines \cup CollisionArrows : HasLine(s, ArrowText(l))}

MultiWord(id) == \E k \in 1..Len(id) : CharAt(id, k) = " "

SingleWord(id) == Len(id) > 0 /\ \A k \in 1..Len(id) : CharAt(id, k) \in WordCh

DeclaredIn(s, id) == HasLine(s, "participant " \o id)

\* the identifier a display name becomes: its non-alphanumerics are "_"
SafeId(name) == ReplaceNonAlNum(name, "_")

\* participant <safeId> as "<name>", anywhere on a line of its own
ReAliased ==
  Cat(<<Bol, Star(In({" "})), Word("participant "),
        Cap(1, Plus(NotIn(SpaceCh))), Word(" as \""),
        Cap(2, Star(NotIn({"\""} \cup LineTerm))), Ch("\""), Eol>>)

\* the declarations with a display name that a text holds
Aliases(s) ==
  {[id |-> Group(s, m, 1), name |-> Group(s, m, 2)] :
     m \in Range(MatchAll(ReAliased, s, 1))}

\* the lines 2..k of a text are all declarations with a display name,
\* and the one of this name is among them
DeclaredAfterHeader(s, name) ==
  \E k \in 2..Len(Lines(s)) :
    /\ Trim(Lines(s)[k]) =
         "participant " \o SafeId(name) \o " as \"" \o name \o "\""
    /\ \A j \in 2..k : Test(ReAliased, Lines(s)[j])

\* C7: sanitizing what sanitizeMermaid returned gives the same text again
C7_Idempotent == (sanpc = "twice") => (again = clean)

\* C8: in a sequence diagram, an arrow line whose source and target are
\* both undeclared names of several words has both declared right after
\* the header, as participant <safeId> as "<name>", and is itself
\* rewritten to the two safe identifiers
C8_BothEndsDeclaredAndRewritten ==
  (Sanitized /\ IsSequenceDiagram(diagram)) =>
    \A l \in ArrowsOf(diagram) :
      (MultiWord(l.source) /\ MultiWord(l.target)) =>
        /\ DeclaredAfterHeader(clean, l.source)
        /\ DeclaredAfterHeader(clean, l.target)
        /\ HasLine(clean, SafeId(l.source) \o l.arrow \o SafeId(l.target)
                            \o ": " \o l.message)
        /\ ~HasLine(clean, ArrowText(l))

\* the identifier the declarations of a text give a name
IdIn(s, name) ==
  IF \E a \in Aliases(s) : a.name = name
    THEN (CHOOSE a \in Aliases(s) : a.name = name).id
    ELSE name

\* C9: every name that is given a declaration has one safe identifier,
\* and every arrow line naming it as source or target carries that
\* identifier, also when one name is part of another
C9_DeclaredNamesRewrittenEverywhere ==
  (Sanitized /\ IsSequenceDiagram(diagram)) =>
    /\ \A a, b \in Aliases(clean) : (a.name = b.name) => (a.id = b.id)
    /\ \A a \in Aliases(clean) : \A l \in ArrowsOf(diagram) :
         (l.source = a.name \/ l.target = a.name) =>
           HasLine(clean, IdIn(clean, l.source) \o l.arrow
                            \o IdIn(clean, l.target) \o ": " \o l.message)

\* every label in brackets is in quotes, on one line, without an ampersand
LabelsClean(s) ==
  /\ \A k \in 1..Len(s) : (CharAt(s, k) = "[") => (CharAt(s, k + 1) = "\"")
  /\ \A m \in Range(MatchAll(ReQuotedLabel, s, 1)) :
       /\ ~Includes(Group(s, m, 1), "\n")
       /\ ~Includes(Group(s, m, 1), "&")

\* a source that needs nothing done to it
AlreadyCorrect(s) ==
  /\ ~Includes(s, "\\n") /\ ~Includes(s, "\\t")
  /\ ~Includes(s, FenceText)
  /\ Len(s) > 0 /\ CharAt(s, Len(s)) \notin (SpaceCh \cup {"%"})
  /\ LabelsClean(s)
  /\ ~Includes(s, "subgraph") /\ ~Includes(s, "\\\"")
  /\ IsSequenceDiagram(s) =>
       \A l \in ArrowsOf(s) : \A id \in {l.source, l.target} :
         SingleWord(id) \/ DeclaredIn(s, id)

\* C10: a source that is already correct, activation markers on its
\* arrows included, comes back as it went in
C10_CorrectSourceUnchanged ==
  (Sanitized /\ AlreadyCorrect(diagram)) => (clean = diagram)

IsFlowchart(s) == Lines(s)[1] = "flowchart TD"

\* the places of a node line in a source
NodePlaces(s, n) == {k \in DOMAIN Lines(s) : Lines(s)[k] = NodeText(n)}

\* a label holds text in parentheses
HasGroup(label) ==
  \E i, j \in 1..Len(label) :
    i < j /\ CharAt(label, i) = "(" /\ CharAt(label, j) = ")"

\* a node with its label in quotes
QuotedNode(n, label) == n.id \o "[\"" \o label \o "\"]" \o n.rest

\* C11: a flowchart node ID[label] whose label is written without quotes,
\* in single brackets, and holds text in parentheses comes out as
\* ID["label"], the label as it was, and the rest of its line as it was
C11_UnquotedLabelQuoted ==
  (Sanitized /\ IsFlowchart(diagram)) =>
    \A n \in NodeLines : \A k \in NodePlaces(diagram, n) :
      (~n.quoted /\ HasGroup(n.label)) =>
        /\ k <= Len(Lines(clean))
        /\ Lines(clean)[k] = QuotedNode(n, n.label)

C11_Witness ==
  /\ Sanitized
  /\ diagram = "flowchart TD\nA[Load Balancer (Nginx)] --> B\nC[f(x) or g(y)]"
  /\ clean = "flowchart TD\nA[\"Load Balancer (Nginx)\"] --> B\nC[\"f(x) or g(y)\"]"

\* what a label is with every & replaced by the word and
Anded(label) ==
  CASE label = "Cache & DB" -> "Cache and DB"
    [] label = "R&D & Ops"  -> "RandD and Ops"
    [] OTHER                -> label

\* C12: a label written in brackets and quotes comes out with each & in
\* it replaced by the word and, and with nothing else in it changed
C12_AmpersandBecomesAnd ==
  (Sanitized /\ IsFlowchart(diagram)) =>
    \A n \in NodeLines : \A k \in NodePlaces(diagram, n) :
      n.quoted =>
        /\ k <= Len(Lines(clean))
        /\ Lines(clean)[k] = QuotedNode(n, Anded(n.label))

C12_Witness ==
  /\ Sanitized
  /\ diagram = "flowchart TD\nD[\"Cache & DB\"]\nE[\"R&D & Ops\"] --> A"
  /\ clean = "flowchart TD\nD[\"Cache and DB\"]\nE[\"RandD and Ops\"] --> A"

LastLine(s) == Lines(s)[Len(Lines(s))]

IsComment(line) == Prefix(line, 2) = "%%"

EndsWithPercent(s) == Len(s) > 0 /\ CharAt(s, Len(s)) = "%"

EndsInRun(s) == Len(s) > 0 /\ CharAt(s, Len(s)) \in (SpaceCh \cup {"%"})

\* a text without the whitespace and the % it ends in
WithoutRun(s) ==
  Prefix(s, Maximum({0} \cup {k \in 1..Len(s) :
                                CharAt(s, k) \notin (SpaceCh \cup {"%"})}))

\* a text without the comment lines it ends in, and without the whitespace
\* and the % that the statement before them ends in
WithoutComments(s) ==
  LET kept == Maximum({1} \cup {k \in DOMAIN Lines(s) : ~IsComment(Lines(s)[k])})
  IN  WithoutRun(Join(SubSeq(Lines(s), 1, kept), "\n"))

\* a source that no other repair applies to
NoOtherRepair(s) ==
  /\ AlreadyCorrect(s)
  /\ \A l \in ArrowsOf(s) : l.arrow = "->>"

\* C13, as the specification states it: a source that ends in a comment
\* line (%% note) or in % after its last statement comes out without that
\* comment and without those %, the statements before them as they were
C13_TrailingCommentRemoved ==
  (Sanitized /\ (IsComment(LastLine(diagram)) \/ EndsWithPercent(diagram))) =>
    /\ ~IsComment(LastLine(clean)) /\ ~EndsWithPercent(clean)
    /\ NoOtherRepair(WithoutComments(diagram)) =>
         clean = WithoutComments(diagram)

\* C13, as the code has it: what is removed is the whitespace and the %
\* that the source ends in, and no more than that: a last line that is a
\* comment with text (%% note) stays.  The result never ends in whitespace
\* or %, and where no other repair applies it is the source without that
\* ending.
C13_TrailingPercentRemoved ==
  Sanitized =>
    /\ ~EndsInRun(clean)
    /\ NoOtherRepair(WithoutRun(diagram)) => clean = WithoutRun(diagram)

C13_Witness ==
  /\ Sanitized
  /\ diagram = "flowchart TD\nF[\"Auth (v2)\"]\nA --> B %%"
  /\ clean = "flowchart TD\nF[\"Auth (v2)\"]\nA --> B"

(***************************************************************************)
(* The candidate extraction of tryParseOutput on its own                   *)
(***************************************************************************)

\* completions that hold a fenced block, by what they are made of: the text
\* before the block, the tag and what follows it on the line of the opening
\* fence, the interior, what precedes the closing fence, the text after
FencedReplies ==
  [pre   : {"", "Here is the design:\n"},
   tag   : {"", "json", "javascript"},
   gap   : {"\n", ""},
   body  : {"{}", "{\"a\":1}", "{\n  \"a\": 1\n}"},
   close : {"\n", ""},
   post  : {"", "\nDone.", "\n" \o FenceText \o "json\n{\"b\":2}\n" \o FenceText}]

ReplyText(r) ==
  r.pre \o FenceText \o r.tag \o r.gap \o r.body \o r.close \o FenceText
        \o r.post

\* completions without a fenced block: JSON, prose, a block that is not closed
PlainReplies ==
  {"{\"a\":1}", "Here is the design.", FenceText \o "json\n{\"a\":1}"}

\* completions that are JSON texts of the schema or near it, one of them in
\* a fenced block, one of them with a fenced block in a diagram
SchemaReplies ==
  {TextUber, TextBare, TextNoFlow, TextTyped, TextFenced, TextFencedFlow}

ExtInit ==
  /\ problems = <<>> /\ models = <<>> /\ environ = {}
  /\ service = [outputs |-> {}, firstErrors |-> {}, texts |-> {},
                retryErrors |-> {}]
  /\ pi = 1 /\ mi = 1 /\ completed = 0 /\ failed = 0
  /\ files = <<>>
  /\ pc = "done"
  /\ now = 0
  /\ RunnerIdle
  /\ SanIdle
  /\ raw \in {ReplyText(r) : r \in FencedReplies} \cup PlainReplies
               \cup SchemaReplies
  /\ candidate = ""
  /\ outcome = NoOutcome
  /\ extpc = "start"

\* runner.ts lines 18-37: tryParseOutput(raw), and its jsonStr
Extract ==
  /\ extpc = "start"
  /\ candidate' = ExtractCandidate(raw)
  /\ outcome' = tryParseOutput(raw)
  /\ extpc' = "done"
  /\ UNCHANGED <<runVars, sanVars, raw>>

ExtNext == Extract

ExtSpec == ExtInit /\ [][ExtNext]_vars

Extracted == extpc = "done"

\* C14, as the specification states it: from a text that holds a block in
\* triple backticks, with a language tag or without one, the candidate is
\* the interior of the first such block; a text without a block is itself
\* the candidate
C14_InteriorOfFirstBlock ==
  Extracted =>
    /\ \A r \in FencedReplies : (raw = ReplyText(r)) => (candidate = r.body)
    /\ (raw \in PlainReplies) => (candidate = raw)

\* C14, as the code has it: the interior of the first block is the
\* candidate when the opening fence has no tag or the tag json; any other
\* tag is taken into the candidate, with what follows it on its line; a
\* text without a block is itself the candidate
C14_InteriorOfFirstJsonBlock ==
  Extracted =>
    /\ \A r \in FencedReplies :
         (raw = ReplyText(r)) =>
           candidate = (IF r.tag \in {"", "json"} THEN r.body
                        ELSE r.tag \o r.gap \o r.body)
    /\ (raw \in PlainReplies) => (candidate = raw)

C14_Witness ==
  /\ Extracted
  /\ raw = "Here is the design:\n" \o FenceText \o "json\n{\"a\":1}\n"
             \o FenceText \o "\n" \o FenceText \o "json\n{\"b\":2}\n"
             \o FenceText
  /\ candidate = "{\"a\":1}"

(***************************************************************************)
(* Properties of the run results and of what runBenchmark writes           *)
(***************************************************************************)

EndsWith(s, suffix) ==
  /\ Len(s) >= Len(suffix)
  /\ SubSeq(s, Len(s) - Len(suffix) + 1, Len(s)) = suffix

\* the meta.json files of the output directory
MetaFiles == {path \in DOMAIN files : EndsWith(path, "/meta.json")}

HasVersion(meta) ==
  /\ "version" \in DOMAIN meta
  /\ meta["version"] = META_VERSION

\* C15: the meta record of a successful run, as runSingle returns it and as
\* writeRunResult writes it to meta.json, has a field version that is
\* META_VERSION, whether the constrained request or the manual loop
\* produced the output
C15_MetaCarriesVersion ==
  /\ (pc = "returned") => HasVersion(result.meta)
  /\ \A path \in MetaFiles : HasVersion(files[path].json)

\* C16: meta.timestamp is the time the run started, taken before the first
\* completion request; completion latency and retries do not move it
C16_TimestampIsRunStart ==
  (pc = "returned") => (result.meta.timestamp = startedAt)

\* a model id with "-" for each character that is no letter, digit, ".",
\* "_" or "-"
RECURSIVE Dashed(_)
Dashed(id) ==
  IF Len(id) = 0 THEN ""
  ELSE (IF CharAt(id, 1) \in (AlNum \cup {".", "_", "-"})
          THEN CharAt(id, 1) ELSE "-")
         \o Dashed(SubSeq(id, 2, Len(id)))

KeyMissing ==
  /\ pc = "threw"
  /\ Prefix(error, 29) = "Missing environment variable:"

\* C18: a model whose API key is not set is skipped: its run sends no
\* completion request and writes nothing, and runBenchmark goes on to the
\* pairs that remain without counting a failed run for it
C18_MissingKeyModelSkipped ==
  [][KeyMissing =>
       /\ sent = <<>>
       /\ files' = files
       /\ pi' # pi \/ mi' # mi \/ pc' = "done"
       /\ failed' = failed /\ completed' = completed]_vars

\* the pairs whose run has ended, when the pairs are taken problem by
\* problem and, for each problem, model by model
PairsBefore ==
  IF pc = "done" THEN Len(problems) * Len(models)
  ELSE (pi - 1) * Len(models) + (mi - 1)

\* the current pair gives way to the next one of that order
NextInOrder ==
  \/ mi < Len(models) /\ mi' = mi + 1 /\ pi' = pi
  \/ mi = Len(models) /\ pi < Len(problems) /\ mi' = 1 /\ pi' = pi + 1

\* C19: a run that fails does not end the benchmark.  Every pair of a
\* problem and a model is run once, problem by problem and model by model,
\* whether the runs before it returned or raised; each run that ended is
\* counted once, as completed or as failed, and when runBenchmark is done
\* completed + failed is problems.length * models.length.
C19_EveryPairRunOnce ==
  /\ [](completed + failed = PairsBefore)
  /\ [][/\ (pi' # pi \/ mi' # mi) => (pc \in {"returned", "threw"} /\ NextInOrder)
        /\ (pc \in {"returned", "threw"}) =>
             (pc' = "done" /\ pi' = pi /\ mi' = mi /\ pi = Len(problems)
                /\ mi = Len(models))
             \/ (pc' = "bench" /\ NextInOrder)]_vars
  /\ <>(pc = "done")

C19_Witness ==
  /\ pc = "done"
  /\ Len(problems) = 2 /\ Len(models) = 2
  /\ failed = 3 /\ completed = 1

\* the run directories of the output directory
RunDirs == {SubSeq(path, 1, Len(path) - Len("/meta.json")) : path \in MetaFiles}

Written(dir, name) == (dir \o "/" \o name) \in DOMAIN files

FileOf(dir, name) == files[dir \o "/" \o name]

\* the field of the output that raw-response.json of a directory holds
FieldOf(dir, key) == FileOf(dir, "raw-response.json").json[key].v

\* what the diagrams of the outputs are when sanitized
SanitizedAs(src) ==
  CASE src = "flowchart TD\nA[LB (x)]" -> "flowchart TD\nA[\"LB (x)\"]"
    [] OTHER -> src

AttemptOf(k) == k - 1

\* the responses of the manual loop that failed decoding or validation
InvalidCount == Cardinality({k \in 2..Len(replies) : InvalidText(k)})

\* onStatus was given the diagnostic of the failure of attempt a
Diagnosed(a, errMsg) ==
  \E n \in 1..Len(status) :
    status[n] = "attempt " \o ToString(a) \o " failed: " \o errMsg \o "..."

\* what a transport failure of attempt AttemptOf(k) is followed by
TransportFailureHandled(k) ==
  IF AttemptOf(k) < MAX_RETRIES
    THEN /\ Diagnosed(AttemptOf(k), replies[k].message)
         /\ Len(sent) >= k + 1
         /\ sent[k + 1].messages = sent[k].messages
    ELSE /\ Len(replies) = k /\ Len(sent) = k
         /\ pc = "threw" /\ error = replies[k].message

\* C21, as the specification states it: a transport failure of attempt k of
\* the manual loop is reported by onStatus and followed by attempt k + 1 with
\* the same transcript when k < MAX_RETRIES, and raised to the caller when
\* k = MAX_RETRIES; it takes none of the MAX_RETRIES validation retries, so a
\* run whose last response is invalid goes on while fewer than MAX_RETRIES
\* responses of the loop were invalid.
C21_TransportFailureTakesNoRetry ==
  /\ \A k \in 2..Len(replies) : TransportFailure(k) => TransportFailureHandled(k)
  /\ (Len(replies) >= 2 /\ InvalidText(Len(replies)) /\ InvalidCount < MAX_RETRIES)
       => pc = "retry"

\* C21, as the code has it: a transport failure of attempt k of the manual
\* loop is reported by onStatus and followed by attempt k + 1 with the same
\* transcript when k < MAX_RETRIES, and raised to the caller when
\* k = MAX_RETRIES; it takes one of the MAX_RETRIES attempts as a validation
\* failure does: the loop counter is one more than the failures of the loop,
\* of either kind, and the run ends with the failure of attempt MAX_RETRIES.
C21_TransportFailureTakesAnAttempt ==
  /\ \A k \in 2..Len(replies) : TransportFailure(k) => TransportFailureHandled(k)
  /\ pc = "retry" =>
       /\ attempt = Len(replies)
       /\ attempt <= MAX_RETRIES
       /\ \A k \in 2..Len(replies) : TransportFailure(k) \/ InvalidText(k)
  /\ (Len(replies) = 1 + MAX_RETRIES /\ ~ValidText(Len(replies))) =>
       pc = "threw" /\ attempt = MAX_RETRIES

\* attempt 1 fails in the transport, attempt 2 gets an invalid response, and
\* the run ends after one validation failure
C21_Witness ==
  /\ pc = "threw" /\ Len(replies) = 1 + MAX_RETRIES
  /\ TransportFailure(2) /\ InvalidText(3)
  /\ InvalidCount = 1
  /\ Diagnosed(1, replies[2].message)
  /\ Includes(error, "Validation failed after")

\* a transcript: the user prompt of the run first, then assistant and user
\* turns in alternation, a user turn last
WellFormed(transcript) ==
  /\ Len(transcript) % 2 = 1
  /\ transcript[1] = UserMessage(buildUserPrompt(problem))
  /\ \A i \in 1..Len(transcript) :
       transcript[i].role = (IF i % 2 = 1 THEN "user" ELSE "assistant")

\* the lines of a message that quote a validation issue
QuotedIssues(content) ==
  {i \in 1..Len(Lines(content)) : Prefix(Lines(content)[i], 4) = "  - "}

\* the correction request quotes what failed in text: the message of the
\* decode failure, or one line per validation issue
QuotesIssuesOf(content, text) ==
  /\ Includes(content, IssueText(text))
  /\ Cardinality(QuotedIssues(content))
       = (IF JSONParse(ExtractCandidate(text)).ok
            THEN Len(safeParse(JSONParse(ExtractCandidate(text)).value).issues)
            ELSE 0)
  /\ \A i \in QuotedIssues(content) :
       \E n \in 1..Len(tryParseOutput(text).issues) :
         Lines(content)[i] = IssueLine(tryParseOutput(text).issues[n])

\* C22: when a response of the manual loop fails decoding or validation and
\* attempts remain, the next request carries the transcript of the failed
\* one followed by exactly two entries, the raw response as an assistant
\* turn and then a user turn that quotes the issues, one line per validation
\* issue or the decode-failure message; both kinds of failure are handled
\* alike; every transcript that is sent starts with the user prompt,
\* alternates user and assistant turns and ends with a user turn.
C22_TwoEntriesPerFailedResponse ==
  /\ \A k \in 2..Len(replies) :
       (InvalidText(k) /\ AttemptOf(k) < MAX_RETRIES) =>
          /\ Len(sent) >= k + 1
          /\ Len(sent[k + 1].messages) = Len(sent[k].messages) + 2
          /\ SubSeq(sent[k + 1].messages, 1, Len(sent[k].messages)) = sent[k].messages
          /\ sent[k + 1].messages[Len(sent[k].messages) + 1]
               = AssistantMessage(replies[k].text)
          /\ sent[k + 1].messages[Len(sent[k].messages) + 2].role = "user"
          /\ QuotesIssuesOf(sent[k + 1].messages[Len(sent[k].messages) + 2].content,
                            replies[k].text)
  /\ \A k \in 1..Len(sent) : WellFormed(sent[k].messages)
  /\ messages # <<>> => WellFormed(messages)
  /\ pc = "retry" => sent[Len(sent)].messages = messages

\* attempt 1 is answered by prose, and attempt 2 is sent with the correction
C22_Witness ==
  /\ pc = "retry" /\ Len(sent) = 3 /\ Len(replies) = 2
  /\ replies[2].kind = "text" /\ replies[2].text = TextProse
  /\ Len(messages) = 3
  /\ Includes(messages[3].content, "Response is not valid JSON")

\* the completion requests that are not answered yet
Outstanding == Len(sent) - Len(replies)

\* the invocation of runSingle is over and its frame is gone
Returns == sent' = <<>>

\* C23: within one invocation of runSingle at most one completion request is
\* outstanding; a request is issued only when every request before it has
\* resolved or was rejected; the attempt index never goes down, it goes up
\* by one with every request of the manual loop, and request k of the loop
\* is the only one issued with index k.
C23_RequestsAreSequential ==
  /\ [](Outstanding \in {0, 1})
  /\ [](InRun <=> Outstanding = 1)
  /\ [][ Returns \/
          /\ attempt' >= attempt
          /\ Len(sent') \in {Len(sent), Len(sent) + 1}
          /\ attempt' # attempt => attempt' = attempt + 1
          /\ Len(sent') = Len(sent) + 1 =>
               /\ Outstanding = 0 \/ Len(replies') = Len(sent)
               /\ SubSeq(sent', 1, Len(sent)) = sent
               /\ Len(sent) >= 1 =>
                    (attempt' = attempt + 1 /\ attempt' = Len(sent)) ]_vars

\* the second request of the manual loop is out, the two requests before it
\* are answered
C23_Witness ==
  /\ pc = "retry" /\ attempt = MAX_RETRIES
  /\ Len(sent) = 1 + MAX_RETRIES /\ Len(replies) = MAX_RETRIES
  /\ Outstanding = 1

(***************************************************************************)
(* Properties of the participant repair and of the subgraph repair         *)
(***************************************************************************)

\* the text that the participant repair is handed: writer.ts lines 24-66
BeforeRepair(src) ==
  Let(Let(Let(Let(Let(Let(Let(
    normalizeMermaid(src),
    StripFences),
    StripTrailing),
    CollapseLabels),
    AmpersandLabels),
    QuoteLabels),
    SubgraphTitles),
    EscapedQuotes)

\* the Map undeclared of a call of sanitizeMermaid: the identifiers that
\* are discovered, in the order of their discovery
Discovered(src) ==
  Let(BeforeRepair(src),
      LAMBDA text :
        IF Test(ReSeqGate, text) THEN Undeclared(text) ELSE <<>>)

\* participant <safeId> as "<raw identifier>"
Declares(line, e) ==
  Trim(line) = "participant " \o e.safeId \o " as \"" \o e.name \o "\""

\* C24: when the participant repair discovers undeclared identifiers, the
\* lines that follow the header line of the result are their declarations,
\* participant <safeId> as "<raw identifier>", one per identifier and in
\* the order of discovery, and no other line of the result declares one of
\* them.
C24_DeclarationsFollowHeader ==
  Sanitized =>
    Let(Discovered(diagram),
        LAMBDA und :
          Len(und) > 0 =>
            /\ Len(Lines(clean)) >= 1 + Len(und)
            /\ Prefix(Lines(clean)[1], 15) = "sequenceDiagram"
            /\ \A i \in 1..Len(und) : Declares(Lines(clean)[1 + i], und[i])
            /\ \A i \in 1..Len(und) :
                 Cardinality({k \in DOMAIN Lines(clean) :
                                Declares(Lines(clean)[k], und[i])}) = 1)

\* the places of a subgraph line in a source
SubgraphPlaces(s, g) == {k \in DOMAIN Lines(s) : Lines(s)[k] = SubgraphText(g)}

\* what a subgraph line is to come out as: with an identifier and its title
\* in quotes, or as it is
RepairedSubgraph(g) ==
  IF g.id = "" THEN SubgraphText(g)
  ELSE g.indent \o "subgraph " \o g.id \o "[\"" \o Trim(g.title) \o "\"]"

\* C25: a line subgraph T whose title T holds text in parentheses and is
\* not in the form id["title"] comes out as subgraph S["T"], with its
\* indentation and its title without the whitespace around it, S being the
\* letters and digits of T, SubgraphIdLen of them at most; a subgraph line
\* in the form id["title"] comes out as it is.
C25_SubgraphTitleRepaired ==
  (Sanitized /\ IsFlowchart(diagram)) =>
    \A g \in SubgraphLines : \A k \in SubgraphPlaces(diagram, g) :
      /\ HasGroup(g.title) /\ g.id # "" =>
           /\ Len(g.id) <= SubgraphIdLen
           /\ \A c \in 1..Len(g.id) : CharAt(g.id, c) \in AlNum
      /\ k <= Len(Lines(clean))
      /\ Lines(clean)[k] = RepairedSubgraph(g)

C25_Witness ==
  /\ Sanitized
  /\ diagram = "flowchart TD\n    subgraph Edge (CDN) and Gateway (API) for Region One\nsubgraph DL[\"Data Layer (x)\"]"
  /\ clean = "flowchart TD\n    subgraph EdgeCDNandGatewayAPIforRegionO[\"Edge (CDN) and Gateway (API) for Region One\"]\nsubgraph DL[\"Data Layer (x)\"]"

\* the participant ids that a text declares, line by line
DeclaredIds(s) ==
  Let(MatchAll(ReParticipant, s, 1),
      LAMBDA ms : [k \in 1..Len(ms) |-> Group(s, ms[k], 1)])

\* C27: within one call the safe identifiers are injective and fresh: two
\* raw identifiers never get the same safe identifier, no safe identifier
\* is a participant id that the text declares already, and the result
\* declares none of the safe identifiers twice.
C27_SafeIdsInjectiveAndFresh ==
  Sanitized =>
    Let(Discovered(diagram),
        LAMBDA und :
          /\ \A i, j \in 1..Len(und) :
               und[i].safeId = und[j].safeId => i = j
          /\ \A i \in 1..Len(und) :
               und[i].safeId \notin Declared(BeforeRepair(diagram))
          /\ \A i \in 1..Len(und) :
               Cardinality({k \in 1..Len(DeclaredIds(clean)) :
                              DeclaredIds(clean)[k] = und[i].safeId}) <= 1)

\* C28: whenever the participant repair rewrites a raw identifier to a
\* safe identifier, the result holds the declaration of that safe
\* identifier with the raw identifier as its display name, whatever the
\* header line of the sequence diagram is followed by.
C28_RewrittenNamesAreDeclared ==
  Sanitized =>
    Let(Discovered(diagram),
        LAMBDA und :
          \A i \in 1..Len(und) :
            \E k \in DOMAIN Lines(clean) : Declares(Lines(clean)[k], und[i]))

(***************************************************************************)
(* Properties of tryParseOutput                                            *)
(***************************************************************************)

\* C26: a completion that is itself a well-formed JSON text of a value of
\* HLDOutputSchema comes back from tryParseOutput as data, without an
\* error, whatever its strings hold, a fenced block in a diagram included.
C26_ValidJsonReturnedAsData ==
  Extracted =>
    \A d \in JSONDocs :
      (raw = d.text /\ safeParse(d.value).success) =>
         /\ outcome.ok
         /\ outcome.error = ""
         /\ outcome.data = safeParse(d.value).data

(***************************************************************************)
(* runBenchmark over problems and models whose run directories coincide    *)
(***************************************************************************)

\* two model ids that differ in a character getRunDir replaces
SlashedModels ==
  << [id |-> "meta/llama", provider |-> "openrouter", model |-> "llama",
      displayName |-> "Llama", envVar |-> ""],
     [id |-> "meta-llama", provider |-> "openrouter", model |-> "llama-3",
      displayName |-> "Llama 3", envVar |-> ""] >>

\* a problem key and a model id that join to what another pair joins to
SplitProblems ==
  << [key |-> "design-uber", title |-> "Uber", description |-> "Rides.",
      constraints |-> <<>>],
     [key |-> "design", title |-> "Design", description |-> "Any.",
      constraints |-> <<>>] >>
SplitModels ==
  << [id |-> "gpt", provider |-> "openai", model |-> "gpt",
      displayName |-> "GPT", envVar |-> ""],
     [id |-> "uber-gpt", provider |-> "openai", model |-> "uber-gpt",
      displayName |-> "Uber GPT", envVar |-> ""] >>

CollisionScenarios ==
  { [problems |-> <<Problems[1]>>, models |-> SlashedModels,
     environ |-> AllKeys, service |-> TerseService],
    [problems |-> SplitProblems, models |-> SplitModels,
     environ |-> AllKeys, service |-> TerseService] }

CollisionInit ==
  /\ \E sc \in CollisionScenarios :
       /\ problems = sc.problems /\ models = sc.models
       /\ service = sc.service /\ environ = sc.environ
  /\ pi = 1 /\ mi = 1 /\ completed = 0 /\ failed = 0
  /\ files = <<>>
  /\ pc = "bench"
  /\ now = 0
  /\ RunnerIdle
  /\ SanIdle
  /\ ExtIdle

CollisionSpec == CollisionInit /\ [][Next]_vars

\* C29: the pairs of a problem key and a model id that differ have run
\* directories that differ: every completed run has a directory of its
\* own, and a file that the run of one pair wrote is never written again
\* by the run of another pair.
C29_RunDirsAreDistinct ==
  /\ [](Cardinality(RunDirs) = completed)
  /\ [][\A q \in DOMAIN files : q \in DOMAIN files' /\ files'[q] = files[q]]_vars

(***************************************************************************)
(* runBenchmark over a file system whose writes can fail                   *)
(***************************************************************************)

FsScenarios ==
  { [problems |-> <<Problems[1]>>, models |-> <<Models[1]>>,
     environ |-> AllKeys, service |-> AnyService],
    [problems |-> <<Problems[2]>>, models |-> Models,
     environ |-> AllKeys, service |-> TerseService] }

FsInit ==
  /\ \E sc \in FsScenarios :
       /\ problems = sc.problems /\ models = sc.models
       /\ service = sc.service /\ environ = sc.environ
  /\ pi = 1 /\ mi = 1 /\ completed = 0 /\ failed = 0
  /\ files = <<>>
  /\ pc = "bench"
  /\ now = 0
  /\ RunnerIdle
  /\ SanIdle
  /\ ExtIdle

\* the writes of writeRunResult(OutputDir, result), in order
WritesOf(res) ==
  RunFiles(getRunDir(OutputDir, res.meta.problem, res.meta.model), res)

\* a faulty WriteFails: the run whose files were not all written is counted
\* as completed
WriteFailsCompleted ==
  /\ pc = "returned"
  /\ \E n \in 0..(Len(WritesOf(result)) - 1) :
       files' = WriteFiles(files, SubSeq(WritesOf(result), 1, n))
  /\ completed' = completed + 1
  /\ NextPair
  /\ UNCHANGED <<problems, models, service, environ, failed, now, sanVars, extVars>>

\* runBenchmark lines 196 and 202-206: the run returned and writeRunResult
\* raises an error, of mkdirSync or of one of its writes, the writes before
\* it done; the pair is counted as failed
WriteFails ==
  /\ pc = "returned"
  /\ \E n \in 0..(Len(WritesOf(result)) - 1) :
       files' = WriteFiles(files, SubSeq(WritesOf(result), 1, n))
  /\ failed' = failed + 1
  /\ NextPair
  /\ UNCHANGED <<problems, models, service, environ, completed, now, sanVars, extVars>>

FsNext == Next \/ WriteFails

FsSpec == FsInit /\ [][FsNext]_vars

\* the run directories whose last file, design.md, is written
FinishedDirs ==
  {SubSeq(q, 1, Len(q) - Len("/design.md")) :
     q \in {f \in DOMAIN files : EndsWith(f, "/design.md")}}

\* C30: writeRunResult is called once for each pair whose runSingle
\* returned a result, and the result is gone with the call; it is never
\* called for a pair whose runSingle raised an error, which leaves the files
\* as they are and is counted as failed; a pair is counted as completed
\* only with all its files written, and when writeRunResult raises an error
\* the pair is counted as failed.
C30_WrittenOncePerReturnedRun ==
  /\ [](Cardinality(FinishedDirs) = completed)
  /\ [][
       /\ (pc = "returned") =>
            (/\ result' = NoResult /\ pc' \in {"bench", "done"}
             /\ \/ /\ files' = writeRunResult(files, OutputDir, result)
                   /\ completed' = completed + 1 /\ failed' = failed
                \/ /\ \E n \in 0..(Len(WritesOf(result)) - 1) :
                        files' = WriteFiles(files, SubSeq(WritesOf(result), 1, n))
                   /\ completed' = completed /\ failed' = failed + 1)
       /\ (pc = "threw") =>
            (/\ files' = files /\ completed' = completed
             /\ failed' = failed + 1)
       /\ (pc \notin {"returned", "threw"}) =>
            (/\ files' = files /\ completed' = completed /\ failed' = failed)
     ]_vars

\* the first pair returned a result and its third write failed; the second
\* pair raised an error
C30_Witness ==
  /\ pc = "done" /\ completed = 0 /\ failed = 2
  /\ Cardinality(DOMAIN files) = 2
  /\ FinishedDirs = {}

=============================================================================
